---- MODULE Spec2Model ----
(***************************************************************************)
(* VocabMaster: the record store (server/storage.ts, shared/schema.ts),    *)
(* the API routes that write to it (server/routes.ts) and the three study  *)
(* session engines of the client (QuizMode, FlashcardMode, SpellingMode).  *)
(*                                                                         *)
(* The specifications share the variables:                                 *)
(*   Spec        one study session of user u1 and the server that handles  *)
(*               the result it posts;                                      *)
(*   SpecStore   POST /api/quiz-results requests with arbitrary bodies,    *)
(*               handled concurrently (one await point per step);          *)
(*   SpecSeq     the same requests, handled one at a time;                 *)
(*   SpecRuns    one study session through two runs, without the server;   *)
(*   SpecLive    one study session over the stored vocabulary, with a fair *)
(*               vocabulary fetch;                                         *)
(*   SpecQuiz    the questions QuizMode generates from the first fetch;    *)
(*   SpecImport  POST /api/vocabulary/import requests;                     *)
(*   SpecEdit    the routes that write collections, vocabulary and quiz    *)
(*               results, called by two users, one request at a time;      *)
(*   SpecStats   GET /api/dashboard/stats among POST /api/quiz-results;    *)
(*   SpecParse   the CSV and JSON parsers of the import page;              *)
(*   SpecHint    the hint of SpellingMode, for every word of a few letters.*)
(***************************************************************************)
EXTENDS Integers, Sequences, FiniteSets, TLC

\* ---------------------------------------------------------------- bounds
\* words of the user's vocabulary that a fetch can return
MaxWords == 2
\* quiz results the store accepts in one model run
MaxResults == 2
\* vocabulary rows the store accepts in one model run
MaxRows == 3
\* concurrent request handlers of the server
MaxReqs == 2
\* totalQuestions of a hand-written request body (correctAnswers is any
\* number up to one more)
MaxCount == 1
\* items of one import batch
MaxBatch == 2
\* characters of a delimited text typed into the import page
MaxText == 6
\* elements of a JSON array typed into the import page
MaxItems == 2
\* results one study session posts in one model run
MaxPosts == 1

\* ----------------------------------------------------- program constants
\* vocabulary.word is varchar(255)
WordMaxLen == 255

\* ---------------------------------------------------------------- values
\* SQL NULL / a JSON field that is absent
Null == "NULL"

\* the JSON text area is empty: JSON.parse("") throws
NoJson == [t |-> "malformed"]

\* useState<number | null>(null): no option selected
NoAnswer == -1

Users == {"u1", "u2"}
Modes == {"quiz", "flashcard", "spelling"}

\* a || b of JavaScript on a nullable string: "" and null are falsy
Truthy(v) == v # Null /\ v # ""

OrNull(v) == IF Truthy(v) THEN v ELSE Null

Max(a, b) == IF a >= b THEN a ELSE b

RECURSIVE GCD(_, _)
GCD(a, b) == IF b = 0 THEN a ELSE GCD(b, a % b)

\* A JavaScript number that is a quotient of two naturals, kept exact:
\* <<num, den>> in lowest terms; <<0, 0>> is NaN and <<1, 0>> is Infinity.
Ratio(num, den) ==
    LET g == GCD(num, den)
    IN  IF g = 0 THEN <<0, 0>> ELSE <<num \div g, den \div g>>

\* (count / total) * 100
Percent(count, total) == Ratio(count * 100, total)

IsFinite(q) == q[2] # 0

\* a <= b on finite numbers
Leq(a, b) == a[1] * b[2] <= b[1] * a[2]

VARIABLES
    \* --- the record store: one set of rows per table of shared/schema.ts
    collections, vocabulary, progress, quizResults,
    \* logical time: the id of the next inserted row, and new Date()
    clock,
    \* --- the server: requests on the wire, handlers, last response of each
    network, requests, responses,
    \* --- the study session of the client (one mounted mode component)
    mode, collectionId, vocabularyData, isLoading,
    currentIndex, correctCount, isComplete,
    questions, selectedAnswer, isAnswered,
    cards, isFlipped, learnedCards,
    words, userInput, isChecked, isCorrect, showHint,
    \* --- the import page (VocabularyImport): the active tab, the two text
    \* areas, the errors and the preview of the last parse
    tab, csvText, jsonText, parseErrors, previewData,
    \* --- the spelling hint on screen: the word it is made of and its text
    hintWord, hint

storeVars == <<collections, vocabulary, progress, quizResults, clock>>
serverVars == <<network, requests, responses>>
queryVars == <<mode, collectionId, vocabularyData, isLoading>>
quizVars == <<questions, selectedAnswer, isAnswered>>
flashVars == <<cards, isFlipped, learnedCards>>
spellVars == <<words, userInput, isChecked, isCorrect, showHint>>
sessionVars == <<queryVars, currentIndex, correctCount, isComplete,
                 quizVars, flashVars, spellVars>>
textVars == <<tab, csvText, jsonText, parseErrors, previewData, hintWord, hint>>
vars == <<storeVars, serverVars, sessionVars, textVars>>

Reqs == 1 .. MaxReqs

\* ------------------------------------------------------------ the store

\* users.id, collections.id: the foreign keys of shared/schema.ts
CollectionIds == {c.id : c \in collections}

\* db.select().from(progress).where(userId = u and collectionId = c)
getProgress(userId, cid) ==
    {p \in progress : p.userId = userId /\ p.collectionId = cid}

\* (mutant) the session's count replaces the cumulative count
ProgressDataOverwrites(prog, data) ==
    [totalQuizzes   |-> (IF prog = {} THEN 0
                         ELSE (CHOOSE p \in prog : TRUE).totalQuizzes) + 1,
     correctAnswers |-> data.correctAnswers,
     lastStudied    |-> clock]

\* what saveQuizResult hands to updateProgress
ProgressData(prog, data) ==
    [totalQuizzes   |-> (IF prog = {} THEN 0
                         ELSE (CHOOSE p \in prog : TRUE).totalQuizzes) + 1,
     correctAnswers |-> (IF prog = {} THEN 0
                         ELSE (CHOOSE p \in prog : TRUE).correctAnswers)
                        + data.correctAnswers,
     lastStudied    |-> clock]

\* insertQuizResultSchema.parse: the column types of quiz_results
\* (a required field that is absent, or a score that is no number, fails)
ValidQuizResult(body) ==
    /\ {"mode", "totalQuestions", "correctAnswers", "score"}
           \subseteq DOMAIN body
    /\ body.totalQuestions \in Int
    /\ body.correctAnswers \in Int
    /\ IsFinite(body.score)

\* the row constraints of quiz_results: both foreign keys
QuizResultRowOk(row) ==
    /\ row.userId \in Users
    /\ row.collectionId = Null \/ row.collectionId \in CollectionIds

\* the row constraints of progress: both foreign keys, NOT NULL
ProgressRowOk(row) ==
    /\ row.userId \in Users
    /\ row.collectionId \in CollectionIds

\* (mutant) the rollup runs for every result
RollsUpAlways(data) == TRUE

\* saveQuizResult: if (data.collectionId)
RollsUp(data) == Truthy(data.collectionId)

\* a handler that serves no request holds no data
IdleRequest ==
    [pc |-> "idle", data |-> [userId |-> Null], prog |-> {}, existing |-> {}]

\* res.status(status).json(body); the body the model keeps is the id of the
\* stored result, the imported count, or 0 for a message
Reply(r, status, body) ==
    responses' = [responses EXCEPT ![r] = [status |-> status, body |-> body]]

Finish(r) == requests' = [requests EXCEPT ![r] = IdleRequest]

\* POST /api/quiz-results of user userId, up to the first await of
\* saveQuizResult that follows the insert: insertQuizResultSchema.parse,
\* then db.insert(quizResults)
PostQuizResults(r, userId, body) ==
    /\ requests[r].pc = "idle"
    /\ LET data == [userId         |-> userId,
                    collectionId   |-> body.collectionId,
                    mode           |-> body.mode,
                    totalQuestions |-> body.totalQuestions,
                    correctAnswers |-> body.correctAnswers,
                    score          |-> body.score]
           row  == [id |-> clock] @@ data
       IN  IF ~ValidQuizResult(body)
           THEN /\ Reply(r, 400, 0)
                /\ UNCHANGED <<requests, quizResults, clock>>
           ELSE IF ~QuizResultRowOk(row)
           THEN /\ Reply(r, 500, 0)
                /\ UNCHANGED <<requests, quizResults, clock>>
           ELSE /\ Cardinality(quizResults) < MaxResults
                /\ quizResults' = quizResults \cup {row}
                /\ clock' = clock + 1
                /\ IF RollsUp(data)
                   THEN /\ requests' = [requests EXCEPT ![r] =
                                [pc |-> "getProgress", data |-> row,
                                 prog |-> {}, existing |-> {}]]
                        /\ UNCHANGED responses
                   ELSE /\ Reply(r, 201, row.id)
                        /\ UNCHANGED requests
    /\ UNCHANGED <<collections, vocabulary, progress, sessionVars, textVars>>

\* saveQuizResult: const prog = await this.getProgress(userId, collectionId)
SaveQuizResultGetProgress(r) ==
    /\ requests[r].pc = "getProgress"
    /\ LET found == getProgress(requests[r].data.userId,
                                requests[r].data.collectionId)
       IN  \E first \in IF found = {} THEN {{}} ELSE {{p} : p \in found} :
             requests' = [requests EXCEPT ![r].pc = "updateProgress",
                                          ![r].prog = first]
    /\ UNCHANGED <<storeVars, network, responses, sessionVars, textVars>>

\* updateProgress: const existing = await this.getProgress(...)
UpdateProgressGetProgress(r) ==
    /\ requests[r].pc = "updateProgress"
    /\ LET found == getProgress(requests[r].data.userId,
                                requests[r].data.collectionId)
       IN  \E first \in IF found = {} THEN {{}} ELSE {{p} : p \in found} :
             requests' = [requests EXCEPT ![r].pc = "write",
                                          ![r].existing = first]
    /\ UNCHANGED <<storeVars, network, responses, sessionVars, textVars>>

\* updateProgress: the update of the row read, or the insert of a new one
UpdateProgressWrite(r) ==
    /\ requests[r].pc = "write"
    /\ LET req  == requests[r]
           data == ProgressData(req.prog, req.data)
           row  == [id |-> clock, userId |-> req.data.userId,
                    collectionId |-> req.data.collectionId] @@ data
       IN  IF req.existing # {}
           THEN /\ progress' =
                     {IF p.id \in {e.id : e \in req.existing}
                         THEN [id |-> p.id, userId |-> p.userId,
                               collectionId |-> p.collectionId] @@ data
                         ELSE p : p \in progress}
                /\ Reply(r, 201, req.data.id)
                /\ UNCHANGED clock
           ELSE IF ~ProgressRowOk(row)
           THEN /\ Reply(r, 500, 0)
                /\ UNCHANGED <<progress, clock>>
           ELSE /\ progress' = progress \cup {row}
                /\ clock' = clock + 1
                /\ Reply(r, 201, req.data.id)
    /\ Finish(r)
    /\ UNCHANGED <<collections, vocabulary, quizResults, network, sessionVars, textVars>>

\* --------------------------------- SpecStore: hand-written request bodies

\* the bodies an authenticated client can send to POST /api/quiz-results
RequestBodies ==
    [mode           : {"quiz"},
     totalQuestions : {MaxCount},
     correctAnswers : 0 .. MaxCount + 1,
     score          : {Ratio(100, 1)},
     collectionId   : {Null, "c1", "c9"}]

\* a body the schema rejects: totalQuestions is missing
MalformedBody ==
    [mode |-> "quiz", correctAnswers |-> 0, score |-> Ratio(0, 1),
     collectionId |-> Null]

\* a request that arrives is served by the first handler that is free
FirstIdle(r) ==
    /\ requests[r].pc = "idle"
    /\ \A o \in Reqs : o < r => requests[o].pc # "idle"

NextStore ==
    \/ \E r \in Reqs, u \in Users, body \in RequestBodies :
          FirstIdle(r) /\ PostQuizResults(r, u, body) /\ UNCHANGED network
    \/ \E r \in Reqs, u \in Users :
          FirstIdle(r) /\ PostQuizResults(r, u, MalformedBody)
                       /\ UNCHANGED network
    \/ \E r \in Reqs : SaveQuizResultGetProgress(r)
    \/ \E r \in Reqs : UpdateProgressGetProgress(r)
    \/ \E r \in Reqs : UpdateProgressWrite(r)

\* one collection per user, no other row, no request, no session mounted
InitStore ==
    /\ collections = {[id |-> "c1", userId |-> "u1", name |-> "first"],
                      [id |-> "c2", userId |-> "u2", name |-> "second"]}
    /\ vocabulary = {}
    /\ progress = {}
    /\ quizResults = {}
    /\ clock = 1
    /\ network = <<>>
    /\ requests = [r \in Reqs |-> IdleRequest]
    /\ responses = [r \in Reqs |-> [status |-> 0, body |-> 0]]
    /\ mode = "none"
    /\ collectionId = Null
    /\ vocabularyData = {}
    /\ isLoading = FALSE
    /\ currentIndex = 0
    /\ correctCount = 0
    /\ isComplete = FALSE
    /\ questions = <<>>
    /\ selectedAnswer = NoAnswer
    /\ isAnswered = FALSE
    /\ cards = <<>>
    /\ isFlipped = FALSE
    /\ learnedCards = {}
    /\ words = <<>>
    /\ userInput = <<>>
    /\ isChecked = FALSE
    /\ isCorrect = FALSE
    /\ showHint = FALSE
    /\ tab = "csv"
    /\ csvText = <<>>
    /\ jsonText = NoJson
    /\ parseErrors = <<>>
    /\ previewData = <<>>
    /\ hintWord = <<>>
    /\ hint = <<>>

SpecStore == InitStore /\ [][NextStore]_vars
\* the same handlers, one request at a time
OthersIdle(r) == \A o \in Reqs \ {r} : requests[o].pc = "idle"

NextSeq ==
    \/ \E r \in Reqs, u \in Users, body \in RequestBodies :
          /\ FirstIdle(r) /\ OthersIdle(r)
          /\ PostQuizResults(r, u, body) /\ UNCHANGED network
    \/ \E r \in Reqs : OthersIdle(r) /\ SaveQuizResultGetProgress(r)
    \/ \E r \in Reqs : OthersIdle(r) /\ UpdateProgressGetProgress(r)
    \/ \E r \in Reqs : OthersIdle(r) /\ UpdateProgressWrite(r)

SpecSeq == InitStore /\ [][NextSeq]_vars

\* -------------------------------------------- POST /api/vocabulary/import

\* a word of 256 characters
LongWord == "xxxxxxxxxxxxxxxxxxxxxxxxxxxxxxxxxxxxxxxxxxxxxxxxxxxxxxxxxxxxxxxxxxxxxxxxxxxxxxxxxxxxxxxxxxxxxxxxxxxxxxxxxxxxxxxxxxxxxxxxxxxxxxxxxxxxxxxxxxxxxxxxxxxxxxxxxxxxxxxxxxxxxxxxxxxxxxxxxxxxxxxxxxxxxxxxxxxxxxxxxxxxxxxxxxxxxxxxxxxxxxxxxxxxxxxxxxxxxxxxxxxxxxxxxxxxxxxx"

\* the items a client can put in a batch: two well-formed ones, one with
\* no meaning and one whose word is too long for the column
ImportItems ==
    {[word |-> "cat", meaning |-> "animal", example |-> "my cat"],
     [word |-> "dog", meaning |-> "animal", example |-> ""],
     [word |-> "cat", meaning |-> Null, example |-> Null],
     [word |-> LongWord, meaning |-> "long", example |-> Null]}

Batches == UNION {[1 .. n -> ImportItems] : n \in 0 .. MaxBatch}

\* the row constraints of vocabulary: NOT NULL, varchar(255), foreign keys
VocabularyRowOk(row) ==
    /\ row.word # Null /\ Len(row.word) <= WordMaxLen
    /\ row.meaning # Null
    /\ row.userId \in Users
    /\ row.collectionId = Null \/ row.collectionId \in CollectionIds

\* (mutant) an item whose word the user already has is skipped
ImportValuesDeduplicated(userId, items, cid) ==
    LET fresh == SelectSeq(items, LAMBDA item :
                   \A v \in vocabulary :
                       v.userId # userId \/ v.word # item.word)
    IN  [i \in 1 .. Len(fresh) |->
            [word |-> fresh[i].word, meaning |-> fresh[i].meaning,
             example |-> OrNull(fresh[i].example), userId |-> userId,
             collectionId |-> OrNull(cid)]]

\* importVocabulary: const values = items.map(...)
ImportValues(userId, items, cid) ==
    [i \in 1 .. Len(items) |->
        [word |-> items[i].word, meaning |-> items[i].meaning,
         example |-> OrNull(items[i].example), userId |-> userId,
         collectionId |-> OrNull(cid)]]

\* (mutant) one insert per row: the rows before the first rejected one stay
InsertedValuesRowByRow(values) ==
    LET bad == {i \in 1 .. Len(values) : ~VocabularyRowOk(values[i])}
    IN  IF bad = {} THEN values
        ELSE SubSeq(values, 1, (CHOOSE i \in bad : \A j \in bad : i <= j) - 1)

\* db.insert(vocabulary).values(values): one statement, all rows or none
InsertedValues(values) ==
    IF \A i \in 1 .. Len(values) : VocabularyRowOk(values[i])
    THEN values ELSE <<>>

\* rows that accepted imports are still to insert
PendingRows ==
    Cardinality({<<r, i>> \in Reqs \X (1 .. MaxBatch) :
                  requests[r].pc = "insert" /\ i <= Len(requests[r].data.items)})

\* POST /api/vocabulary/import up to the await of storage.importVocabulary;
\* isArray is Array.isArray(vocabulary)
PostVocabularyImport(r, userId, isArray, items, cid) ==
    /\ requests[r].pc = "idle"
    /\ IF ~isArray \/ Len(items) = 0
       THEN /\ Reply(r, 400, 0)
            /\ UNCHANGED requests
       ELSE /\ Cardinality(vocabulary) + PendingRows + Len(items) <= MaxRows
            /\ requests' = [requests EXCEPT ![r] =
                    [pc |-> "insert",
                     data |-> [userId |-> userId, items |-> items,
                               collectionId |-> cid],
                     prog |-> {}, existing |-> {}]]
            /\ UNCHANGED responses
    /\ UNCHANGED <<storeVars, network, sessionVars, textVars>>

\* importVocabulary: the insert, then return items.length; the route answers
\* 201 {imported}, or 500 when the insert throws
ImportVocabulary(r) ==
    /\ requests[r].pc = "insert"
    /\ LET data     == requests[r].data
           values   == ImportValues(data.userId, data.items, data.collectionId)
           inserted == InsertedValues(values)
       IN  /\ vocabulary' = vocabulary \cup
                  {[id |-> clock + i - 1, mastered |-> FALSE] @@ inserted[i] :
                     i \in 1 .. Len(inserted)}
           /\ clock' = clock + Len(inserted)
           /\ IF \A i \in 1 .. Len(values) : VocabularyRowOk(values[i])
              THEN Reply(r, 201, Len(data.items))
              ELSE Reply(r, 500, 0)
    /\ Finish(r)
    /\ UNCHANGED <<collections, progress, quizResults, network, sessionVars, textVars>>

NextImport ==
    \/ \E r \in Reqs, u \in Users, items \in Batches,
          cid \in {Null, "", "c1", "c9"} :
          FirstIdle(r) /\ PostVocabularyImport(r, u, TRUE, items, cid)
    \/ \E r \in Reqs, u \in Users :
          FirstIdle(r) /\ PostVocabularyImport(r, u, FALSE, <<>>, Null)
    \/ \E r \in Reqs : ImportVocabulary(r)

SpecImport == InitStore /\ [][NextImport]_vars

\* ----------------------- PATCH and DELETE of collections and vocabulary

MaxClock == 3

\* .set(data): a column the body names replaces the row's, a column it
\* leaves undefined is kept
Patched(row, body) ==
    [f \in DOMAIN row |-> IF f \in DOMAIN body THEN body[f] ELSE row[f]]

\* the row constraints of collections: NOT NULL, the foreign key
CollectionRowOk(row) ==
    /\ row.name # Null
    /\ row.userId \in Users

\* the bodies a client can send to PATCH /api/collections/:id
CollectionPatches == {[name |-> "renamed"]}

\* the bodies a client can send to PATCH /api/vocabulary/:id
VocabularyPatches ==
    {[collectionId |-> "c1"], [collectionId |-> "c9"], [mastered |-> TRUE]}

\* PATCH /api/collections/:id up to the await of storage.updateCollection;
\* the handler reads the id and the body, never the caller's id
PatchCollection(r, userId, id, body) ==
    /\ requests[r].pc = "idle"
    /\ requests' = [requests EXCEPT ![r] =
            [pc |-> "updateCollection",
             data |-> [userId |-> userId, collection |-> id, body |-> body],
             prog |-> {}, existing |-> {}]]
    /\ UNCHANGED <<storeVars, network, responses, sessionVars, textVars>>

\* updateCollection: update ... where id = id, returning; the route
\* answers the row, 404 when there is none, 500 when the update throws
updateCollection(r) ==
    /\ requests[r].pc = "updateCollection"
    /\ LET data    == requests[r].data
           found   == {c \in collections : c.id = data.collection}
           updated == {Patched(c, data.body) : c \in found}
       IN  IF \E c \in updated : ~CollectionRowOk(c)
           THEN /\ Reply(r, 500, 0)
                /\ UNCHANGED collections
           ELSE IF found = {}
           THEN /\ Reply(r, 404, 0)
                /\ UNCHANGED collections
           ELSE /\ collections' = (collections \ found) \cup updated
                /\ Reply(r, 200, 0)
    /\ Finish(r)
    /\ UNCHANGED <<vocabulary, progress, quizResults, clock, network,
                   sessionVars, textVars>>

\* DELETE /api/collections/:id up to the await of storage.deleteCollection
DeleteCollection(r, userId, id) ==
    /\ requests[r].pc = "idle"
    /\ requests' = [requests EXCEPT ![r] =
            [pc |-> "deleteCollection",
             data |-> [userId |-> userId, collection |-> id],
             prog |-> {}, existing |-> {}]]
    /\ UNCHANGED <<storeVars, network, responses, sessionVars, textVars>>

\* (mutant) vocabulary.collectionId with onDelete: "cascade"
VocabularyOnDeleteCascade(id) ==
    {v \in vocabulary : v.collectionId # id}

\* vocabulary.collectionId references collections.id, onDelete: "set null"
VocabularyOnDelete(id) ==
    {IF v.collectionId = id THEN [v EXCEPT !.collectionId = Null] ELSE v :
        v \in vocabulary}

\* quizResults.collectionId references collections.id, onDelete: "set null"
QuizResultsOnDelete(id) ==
    {IF q.collectionId = id THEN [q EXCEPT !.collectionId = Null] ELSE q :
        q \in quizResults}

\* progress.collectionId references collections.id, onDelete: "cascade"
ProgressOnDelete(id) ==
    {p \in progress : p.collectionId # id}

\* deleteCollection: delete from collections where id = id, with the
\* actions of the foreign keys that reference the row; return true, and
\* the route answers 204
deleteCollection(r) ==
    /\ requests[r].pc = "deleteCollection"
    /\ LET id == requests[r].data.collection
       IN  /\ collections' = {c \in collections : c.id # id}
           /\ vocabulary' = VocabularyOnDelete(id)
           /\ quizResults' = QuizResultsOnDelete(id)
           /\ progress' = ProgressOnDelete(id)
    /\ Reply(r, 204, 0)
    /\ Finish(r)
    /\ UNCHANGED <<clock, network, sessionVars, textVars>>

\* PATCH /api/vocabulary/:id up to the await of storage.updateVocabulary
PatchVocabulary(r, userId, id, body) ==
    /\ requests[r].pc = "idle"
    /\ requests' = [requests EXCEPT ![r] =
            [pc |-> "updateVocabulary",
             data |-> [userId |-> userId, vocabulary |-> id, body |-> body],
             prog |-> {}, existing |-> {}]]
    /\ UNCHANGED <<storeVars, network, responses, sessionVars, textVars>>

\* updateVocabulary: update ... where id = id, returning; the route
\* answers the row, 404 when there is none, 500 when the update throws
updateVocabulary(r) ==
    /\ requests[r].pc = "updateVocabulary"
    /\ LET data    == requests[r].data
           found   == {v \in vocabulary : v.id = data.vocabulary}
           updated == {Patched(v, data.body) : v \in found}
       IN  IF \E v \in updated : ~VocabularyRowOk(v)
           THEN /\ Reply(r, 500, 0)
                /\ UNCHANGED vocabulary
           ELSE IF found = {}
           THEN /\ Reply(r, 404, 0)
                /\ UNCHANGED vocabulary
           ELSE /\ vocabulary' = (vocabulary \ found) \cup updated
                /\ Reply(r, 200, 0)
    /\ Finish(r)
    /\ UNCHANGED <<collections, progress, quizResults, clock, network,
                   sessionVars, textVars>>

\* DELETE /api/vocabulary/:id up to the await of storage.deleteVocabulary
DeleteVocabulary(r, userId, id) ==
    /\ requests[r].pc = "idle"
    /\ requests' = [requests EXCEPT ![r] =
            [pc |-> "deleteVocabulary",
             data |-> [userId |-> userId, vocabulary |-> id],
             prog |-> {}, existing |-> {}]]
    /\ UNCHANGED <<storeVars, network, responses, sessionVars, textVars>>

\* deleteVocabulary: delete from vocabulary where id = id; return true,
\* and the route answers 204
deleteVocabulary(r) ==
    /\ requests[r].pc = "deleteVocabulary"
    /\ vocabulary' = {v \in vocabulary : v.id # requests[r].data.vocabulary}
    /\ Reply(r, 204, 0)
    /\ Finish(r)
    /\ UNCHANGED <<collections, progress, quizResults, clock, network,
                   sessionVars, textVars>>

\* ---- SpecEdit: the write routes, one request at a time

\* the body SpecEdit posts to /api/quiz-results: a result of collection c1
EditResultBody ==
    [mode |-> "quiz", totalQuestions |-> 1, correctAnswers |-> 1,
     score |-> Ratio(100, 1), collectionId |-> "c1"]

\* the batch SpecEdit imports
EditBatch == <<[word |-> "dog", meaning |-> "animal", example |-> ""]>>

\* the store after u1 imported one word into c1
InitEdit ==
    /\ collections = {[id |-> "c1", userId |-> "u1", name |-> "first"],
                      [id |-> "c2", userId |-> "u2", name |-> "second"]}
    /\ vocabulary =
         {[id |-> 1, word |-> "cat", meaning |-> "animal",
           example |-> "my cat", userId |-> "u1", collectionId |-> "c1",
           mastered |-> FALSE]}
    /\ progress = {}
    /\ quizResults = {}
    /\ clock = 2
    /\ network = <<>>
    /\ requests = [r \in Reqs |-> IdleRequest]
    /\ responses = [r \in Reqs |-> [status |-> 0, body |-> 0]]
    /\ mode = "none"
    /\ collectionId = Null
    /\ vocabularyData = {}
    /\ isLoading = FALSE
    /\ currentIndex = 0
    /\ correctCount = 0
    /\ isComplete = FALSE
    /\ questions = <<>>
    /\ selectedAnswer = NoAnswer
    /\ isAnswered = FALSE
    /\ cards = <<>>
    /\ isFlipped = FALSE
    /\ learnedCards = {}
    /\ words = <<>>
    /\ userInput = <<>>
    /\ isChecked = FALSE
    /\ isCorrect = FALSE
    /\ showHint = FALSE
    /\ tab = "csv"
    /\ csvText = <<>>
    /\ jsonText = NoJson
    /\ parseErrors = <<>>
    /\ previewData = <<>>
    /\ hintWord = <<>>
    /\ hint = <<>>

NextEdit ==
    \/ \E r \in Reqs, u \in Users, cid \in {Null, "c1"} :
          /\ FirstIdle(r) /\ OthersIdle(r) /\ clock <= MaxClock
          /\ PostVocabularyImport(r, u, TRUE, EditBatch, cid)
    \/ \E r \in Reqs : ImportVocabulary(r)
    \/ \E r \in Reqs, u \in Users, id \in {"c1", "c9"},
          body \in CollectionPatches :
          FirstIdle(r) /\ OthersIdle(r) /\ PatchCollection(r, u, id, body)
    \/ \E r \in Reqs : updateCollection(r)
    \/ \E r \in Reqs, u \in Users, id \in {"c1", "c9"} :
          FirstIdle(r) /\ OthersIdle(r) /\ DeleteCollection(r, u, id)
    \/ \E r \in Reqs : deleteCollection(r)
    \/ \E r \in Reqs, u \in Users, id \in 0 .. MaxClock,
          body \in VocabularyPatches :
          /\ FirstIdle(r) /\ OthersIdle(r)
          /\ id = 0 \/ \E v \in vocabulary : v.id = id
          /\ PatchVocabulary(r, u, id, body)
    \/ \E r \in Reqs : updateVocabulary(r)
    \/ \E r \in Reqs, u \in Users, id \in 0 .. MaxClock :
          /\ FirstIdle(r) /\ OthersIdle(r)
          /\ id = 0 \/ \E v \in vocabulary : v.id = id
          /\ DeleteVocabulary(r, u, id)
    \/ \E r \in Reqs : deleteVocabulary(r)
    \/ \E r \in Reqs, u \in Users :
          /\ FirstIdle(r) /\ OthersIdle(r) /\ clock <= MaxClock
          /\ PostQuizResults(r, u, EditResultBody) /\ UNCHANGED network
    \/ \E r \in Reqs : SaveQuizResultGetProgress(r)
    \/ \E r \in Reqs : UpdateProgressGetProgress(r)
    \/ \E r \in Reqs : UpdateProgressWrite(r)

SpecEdit == InitEdit /\ [][NextEdit]_vars

\* ------------------------------------------- GET /api/dashboard/stats

\* a + b on finite numbers
Plus(a, b) == Ratio(a[1] * b[2] + b[1] * a[2], a[2] * b[2])

\* results.reduce((sum, r) => sum + r.score, 0)
RECURSIVE SumOfScores(_)
SumOfScores(results) ==
    IF results = {} THEN Ratio(0, 1)
    ELSE LET r == CHOOSE x \in results : TRUE
         IN  Plus(r.score, SumOfScores(results \ {r}))

\* (mutant) the select of the results without the where clause
ResultsOfAnyUser(userId) == quizResults

\* db.select().from(quizResults).where(eq(quizResults.userId, userId))
ResultsOf(userId) == {q \in quizResults : q.userId = userId}

\* results.length > 0 ? sum / results.length : 0
averageAccuracy(results) ==
    IF Cardinality(results) > 0
    THEN LET sum == SumOfScores(results)
         IN  Ratio(sum[1], sum[2] * Cardinality(results))
    ELSE Ratio(0, 1)

\* GET /api/dashboard/stats of user userId, up to the first await of
\* getDashboardStats
GetDashboardStats(r, userId) ==
    /\ requests[r].pc = "idle"
    /\ requests' = [requests EXCEPT ![r] =
            [pc |-> "counts", data |-> [userId |-> userId],
             prog |-> {}, existing |-> {}]]
    /\ UNCHANGED <<storeVars, network, responses, sessionVars, textVars>>

\* getDashboardStats: the counts of the user's words, collections and
\* mastered words
DashboardCounts(r) ==
    /\ requests[r].pc = "counts"
    /\ LET userId == requests[r].data.userId
       IN  requests' = [requests EXCEPT ![r].pc = "results", ![r].data =
              [userId |-> userId,
               totalWords |->
                   Cardinality({v \in vocabulary : v.userId = userId}),
               totalCollections |->
                   Cardinality({c \in collections : c.userId = userId}),
               wordsLearned |->
                   Cardinality({v \in vocabulary :
                                  v.userId = userId /\ v.mastered})]]
    /\ UNCHANGED <<storeVars, network, responses, sessionVars, textVars>>

\* getDashboardStats: the select of the user's results and their average
DashboardResults(r) ==
    /\ requests[r].pc = "results"
    /\ requests' = [requests EXCEPT ![r].pc = "recent", ![r].data =
          [averageAccuracy |->
               averageAccuracy(ResultsOf(requests[r].data.userId))]
             @@ requests[r].data]
    /\ UNCHANGED <<storeVars, network, responses, sessionVars, textVars>>

\* getDashboardStats: getRecentQuizResults, then the route answers the stats
DashboardRespond(r) ==
    /\ requests[r].pc = "recent"
    /\ Reply(r, 200, 0)
    /\ Finish(r)
    /\ UNCHANGED <<storeVars, network, sessionVars, textVars>>

\* the bodies SpecStats posts to /api/quiz-results: results of no collection
StatsBodies ==
    {[mode |-> "quiz", totalQuestions |-> t, correctAnswers |-> c,
      score |-> Percent(c, t), collectionId |-> Null] :
        t \in 1 .. 2, c \in 0 .. 1}

\* no result is stored yet
InitStats ==
    /\ collections = {[id |-> "c1", userId |-> "u1", name |-> "first"],
                      [id |-> "c2", userId |-> "u2", name |-> "second"]}
    /\ vocabulary = {}
    /\ progress = {}
    /\ quizResults = {}
    /\ clock = 1
    /\ network = <<>>
    /\ requests = [r \in Reqs |-> IdleRequest]
    /\ responses = [r \in Reqs |-> [status |-> 0, body |-> 0]]
    /\ mode = "none"
    /\ collectionId = Null
    /\ vocabularyData = {}
    /\ isLoading = FALSE
    /\ currentIndex = 0
    /\ correctCount = 0
    /\ isComplete = FALSE
    /\ questions = <<>>
    /\ selectedAnswer = NoAnswer
    /\ isAnswered = FALSE
    /\ cards = <<>>
    /\ isFlipped = FALSE
    /\ learnedCards = {}
    /\ words = <<>>
    /\ userInput = <<>>
    /\ isChecked = FALSE
    /\ isCorrect = FALSE
    /\ showHint = FALSE
    /\ tab = "csv"
    /\ csvText = <<>>
    /\ jsonText = NoJson
    /\ parseErrors = <<>>
    /\ previewData = <<>>
    /\ hintWord = <<>>
    /\ hint = <<>>

NextStats ==
    \/ \E r \in Reqs, u \in Users, body \in StatsBodies :
          FirstIdle(r) /\ PostQuizResults(r, u, body) /\ UNCHANGED network
    \/ \E r \in Reqs, u \in Users : FirstIdle(r) /\ GetDashboardStats(r, u)
    \/ \E r \in Reqs : DashboardCounts(r)
    \/ \E r \in Reqs : DashboardResults(r)
    \/ \E r \in Reqs : DashboardRespond(r)

SpecStats == InitStats /\ [][NextStats]_vars

\* ------------------------------------------------- the study session

\* The words of user u1: ids 1 .. MaxWords.  Words 1 and 3 have the same
\* meaning; the text of word 1 has an upper-case letter.
WordIds == 1 .. MaxWords

Meaning(w) == IF w = 3 THEN 1 ELSE w

Letters == <<"a", "b", "c", "d", "e">>

Text(w) == IF w = 1 THEN <<"A", "b">> ELSE <<Letters[w]>>

\* what the vocabulary query can deliver: any set of the user's words
WordSets == SUBSET WordIds

\* data of useQuery: {} is undefined, {ws} is the array ws
HasData == vocabularyData # {}
Data == CHOOSE ws \in vocabularyData : TRUE

\* the sequences that list every element of S once
Perms(S) ==
    {p \in [1 .. Cardinality(S) -> S] : \A x \in S : \E i \in DOMAIN p : p[i] = x}

\* shuffleArray: every order of the array (Fisher-Yates with Math.random)
shuffleArray(array) ==
    {[i \in 1 .. Len(array) |-> array[p[i]]] : p \in Perms(1 .. Len(array))}

\* array.slice(0, n)
Slice(array, n) == SubSeq(array, 1, IF Len(array) < n THEN Len(array) ELSE n)

\* array.indexOf(x), 0-based, -1 when absent
IndexOf(array, x) ==
    IF \E i \in 1 .. Len(array) : array[i] = x
    THEN (CHOOSE i \in 1 .. Len(array) :
             array[i] = x /\ \A j \in 1 .. i - 1 : array[j] # x) - 1
    ELSE -1

\* (mutant) correctIndex is taken before the options are shuffled
QuestionsOfUnshuffledIndex(word, ws) ==
    LET others == {w \in ws : Meaning(w) # Meaning(word)}
        wrongMeanings ==
            {Slice([i \in 1 .. Cardinality(others) |-> Meaning(p[i])], 2) :
               p \in Perms(others)}
    IN  {[word |-> word, options |-> options, correctIndex |-> 0] :
            options \in UNION {shuffleArray(<<Meaning(word)>> \o wrong) :
                                 wrong \in wrongMeanings}}

\* the questions generateQuestions can build for one word of ws
QuestionsOf(word, ws) ==
    LET others == {w \in ws : Meaning(w) # Meaning(word)}
        wrongMeanings ==
            {Slice([i \in 1 .. Cardinality(others) |-> Meaning(p[i])], 2) :
               p \in Perms(others)}
    IN  {[word |-> word, options |-> options,
          correctIndex |-> IndexOf(options, Meaning(word))] :
            options \in UNION {shuffleArray(<<Meaning(word)>> \o wrong) :
                                 wrong \in wrongMeanings}}

\* generateQuestions: one question per word, in shuffled order
generateQuestions(ws) ==
    IF Cardinality(ws) < 2 THEN {<<>>}
    ELSE {qs \in [1 .. Cardinality(ws) ->
                    UNION {QuestionsOf(w, ws) : w \in ws}] :
            \A w \in ws : \E i \in DOMAIN qs : qs[i].word = w}

\* the session's items and its running count, by mode
Items == IF mode = "quiz" THEN questions
         ELSE IF mode = "flashcard" THEN cards ELSE words

Count == IF mode = "flashcard" THEN Cardinality(learnedCards) ELSE correctCount

\* items[currentIndex] is defined
HasCurrent == currentIndex + 1 \in DOMAIN Items

\* the smallest word set a mode starts a session with
MinWords == IF mode = "quiz" THEN 2 ELSE 1

\* What the component renders: the early returns of the mode's render in
\* their order.  "Crashed" is the quiz frame that reads
\* questions[currentIndex].word although that question is undefined.
View ==
    IF isLoading THEN "Loading"
    ELSE IF ~HasData \/ Cardinality(Data) < MinWords THEN "Insufficient"
    ELSE IF mode = "spelling" /\ Len(words) = 0 THEN "Preparing"
    ELSE IF isComplete THEN "Complete"
    ELSE IF HasCurrent THEN "InProgress"
    ELSE IF mode = "quiz" THEN "Crashed" ELSE "NoCurrent"

\* the session belongs to user u1
SessionUser == "u1"

\* useQuery({ enabled }): only SpellingMode sets it, to !!collectionId
QueryEnabled == mode # "spelling" \/ Truthy(collectionId)

\* saveResultMutation.mutate(body): POST /api/quiz-results goes on the wire
Mutate(body) == network' = Append(network, body)

\* the step leaves at most n results posted: on the wire or stored
WithinPosts(n) == Len(network') + Cardinality(quizResults) <= n

\* the body the three modes submit at finalization
ResultBody(count, total) ==
    [mode |-> mode, totalQuestions |-> total, correctAnswers |-> count,
     score |-> Percent(count, total), collectionId |-> OrNull(collectionId)]

\* (mutant) the effect of QuizMode without the guard on the number of words
QuizEffectUnguarded(ws) ==
    {qs \in [1 .. Cardinality(ws) -> UNION {QuestionsOf(w, ws) : w \in ws}] :
        \A w \in ws : \E i \in DOMAIN qs : qs[i].word = w}

\* useEffect of QuizMode on vocabulary: the lists setQuestions can receive
QuizEffect(ws) ==
    IF Cardinality(ws) >= 2 THEN generateQuestions(ws) ELSE {questions}

\* useEffect of FlashcardMode (setCards) and SpellingMode (setWords)
ShuffleEffect(ws, old) ==
    IF Cardinality(ws) > 0 THEN Perms(ws) ELSE {old}

\* The vocabulary query delivers the array ws (the first fetch, or a refetch
\* that returns other words), the component renders and the mode's effect
\* on vocabulary runs.  In QuizMode the frame rendered before the effect
\* reads questions[currentIndex].word; when that question is undefined the
\* frame throws, and both continuations are kept: the page is gone with the
\* state as it is, or the effect runs.
VocabularyDelivered(ws) ==
    /\ QueryEnabled
    /\ View # "Crashed"
    /\ vocabularyData # {ws}
    /\ vocabularyData' = {ws}
    /\ isLoading' = FALSE
    /\ \/ /\ mode = "quiz"
          /\ \/ questions' \in QuizEffect(ws)
             \/ /\ Cardinality(ws) >= 2 /\ ~isComplete /\ ~HasCurrent
                /\ questions' = questions
          /\ UNCHANGED <<cards, words>>
       \/ /\ mode = "flashcard"
          /\ cards' \in ShuffleEffect(ws, cards)
          /\ UNCHANGED <<questions, words>>
       \/ /\ mode = "spelling"
          /\ words' \in ShuffleEffect(ws, words)
          /\ UNCHANGED <<questions, cards>>
    /\ UNCHANGED <<textVars, storeVars, serverVars, mode, collectionId, currentIndex,
                   correctCount, isComplete, selectedAnswer, isAnswered,
                   isFlipped, learnedCards, userInput, isChecked, isCorrect,
                   showHint>>

\* the first fetch fails: isLoading goes false and data stays undefined
VocabularyFailed ==
    /\ isLoading /\ ~HasData
    /\ isLoading' = FALSE
    /\ UNCHANGED <<textVars, storeVars, serverVars, mode, collectionId, vocabularyData,
                   currentIndex, correctCount, isComplete, quizVars,
                   flashVars, spellVars>>

\* ---- QuizMode

\* (mutant) handleAnswerSelect without its guard on isAnswered
QuizAnswerLockedNever == FALSE

\* handleAnswerSelect: if (isAnswered) return
QuizAnswerLocked == isAnswered

\* an answer button is clicked (the buttons are disabled once isAnswered is
\* rendered; the handler checks isAnswered itself)
QuizHandleAnswerSelect(index) ==
    /\ mode = "quiz" /\ View = "InProgress"
    /\ index \in 0 .. Len(questions[currentIndex + 1].options) - 1
    /\ IF QuizAnswerLocked
       THEN UNCHANGED <<selectedAnswer, isAnswered, correctCount>>
       ELSE /\ selectedAnswer' = index
            /\ isAnswered' = TRUE
            /\ correctCount' =
                 IF index = questions[currentIndex + 1].correctIndex
                 THEN correctCount + 1 ELSE correctCount
    /\ UNCHANGED <<textVars, storeVars, serverVars, queryVars, currentIndex, isComplete,
                   questions, flashVars, spellVars>>

\* (mutant) the advance to the next question also submits a result
QuizAdvancePosting ==
    /\ currentIndex' = currentIndex + 1
    /\ selectedAnswer' = NoAnswer
    /\ isAnswered' = FALSE
    /\ Mutate(ResultBody(correctCount, Len(questions)))
    /\ UNCHANGED isComplete

\* handleNext of QuizMode, a question follows: nothing is submitted
QuizAdvance ==
    /\ currentIndex' = currentIndex + 1
    /\ selectedAnswer' = NoAnswer
    /\ isAnswered' = FALSE
    /\ UNCHANGED <<isComplete, network>>

\* handleNext of QuizMode; the button is rendered when isAnswered
QuizHandleNext ==
    /\ mode = "quiz" /\ View = "InProgress" /\ isAnswered
    /\ IF currentIndex < Len(questions) - 1
       THEN QuizAdvance
       ELSE /\ isComplete' = TRUE
            /\ Mutate(ResultBody(correctCount, Len(questions)))
            /\ UNCHANGED <<currentIndex, selectedAnswer, isAnswered>>
    /\ UNCHANGED <<textVars, storeVars, requests, responses, queryVars, correctCount,
                   questions, flashVars, spellVars>>

\* (mutant) handleRestart of QuizMode without setCorrectCount(0)
QuizHandleRestartKeepsCount ==
    /\ mode = "quiz" /\ View = "Complete"
    /\ IF HasData
       THEN /\ questions' \in generateQuestions(Data)
            /\ currentIndex' = 0
            /\ selectedAnswer' = NoAnswer
            /\ isAnswered' = FALSE
            /\ isComplete' = FALSE
            /\ UNCHANGED correctCount
       ELSE UNCHANGED <<questions, currentIndex, selectedAnswer, isAnswered,
                        correctCount, isComplete>>
    /\ UNCHANGED <<textVars, storeVars, serverVars, queryVars, flashVars, spellVars>>

\* handleRestart of QuizMode; the button is on the complete screen
QuizHandleRestart ==
    /\ mode = "quiz" /\ View = "Complete"
    /\ IF HasData
       THEN /\ questions' \in generateQuestions(Data)
            /\ currentIndex' = 0
            /\ selectedAnswer' = NoAnswer
            /\ isAnswered' = FALSE
            /\ correctCount' = 0
            /\ isComplete' = FALSE
       ELSE UNCHANGED <<questions, currentIndex, selectedAnswer, isAnswered,
                        correctCount, isComplete>>
    /\ UNCHANGED <<textVars, storeVars, serverVars, queryVars, flashVars, spellVars>>

\* ---- FlashcardMode

\* handleFlip: the card is clicked
FlashcardHandleFlip ==
    /\ mode = "flashcard" /\ View = "InProgress"
    /\ isFlipped' = ~isFlipped
    /\ UNCHANGED <<textVars, storeVars, serverVars, queryVars, currentIndex,
                   correctCount, isComplete, quizVars, cards, learnedCards,
                   spellVars>>

\* handlePrevious; the button is disabled on the first card
FlashcardHandlePrevious ==
    /\ mode = "flashcard" /\ View = "InProgress"
    /\ currentIndex > 0
    /\ currentIndex' = currentIndex - 1
    /\ isFlipped' = FALSE
    /\ UNCHANGED <<textVars, storeVars, serverVars, queryVars, correctCount, isComplete,
                   quizVars, cards, learnedCards, spellVars>>

\* (mutant) handleNext of FlashcardMode without its test of the last card
FlashcardHandleNextUnbounded ==
    /\ mode = "flashcard" /\ View = "InProgress"
    /\ currentIndex' = currentIndex + 1
    /\ isFlipped' = FALSE
    /\ UNCHANGED <<textVars, storeVars, serverVars, queryVars, correctCount, isComplete,
                   quizVars, cards, learnedCards, spellVars>>

\* handleNext of FlashcardMode; the button is disabled on the last card
FlashcardHandleNext ==
    /\ mode = "flashcard" /\ View = "InProgress"
    /\ currentIndex < Len(cards) - 1
    /\ currentIndex' = currentIndex + 1
    /\ isFlipped' = FALSE
    /\ UNCHANGED <<textVars, storeVars, serverVars, queryVars, correctCount, isComplete,
                   quizVars, cards, learnedCards, spellVars>>

\* handleMarkLearned: the id of the current card is toggled in learnedCards
FlashcardHandleMarkLearned ==
    /\ mode = "flashcard" /\ View = "InProgress"
    /\ LET currentCard == cards[currentIndex + 1]
       IN  learnedCards' = IF currentCard \in learnedCards
                           THEN learnedCards \ {currentCard}
                           ELSE learnedCards \cup {currentCard}
    /\ UNCHANGED <<textVars, storeVars, serverVars, queryVars, currentIndex,
                   correctCount, isComplete, quizVars, cards, isFlipped,
                   spellVars>>

\* (mutant) the complete button stays on the complete screen
FlashcardHandleCompleteAgain ==
    /\ mode = "flashcard" /\ View \in {"InProgress", "Complete"}
    /\ currentIndex = Len(cards) - 1
    /\ isComplete' = TRUE
    /\ Mutate(ResultBody(Cardinality(learnedCards), Len(cards)))
    /\ UNCHANGED <<textVars, storeVars, requests, responses, queryVars, currentIndex,
                   correctCount, quizVars, flashVars, spellVars>>

\* handleComplete; the button is rendered on the last card
FlashcardHandleComplete ==
    /\ mode = "flashcard" /\ View = "InProgress"
    /\ currentIndex = Len(cards) - 1
    /\ isComplete' = TRUE
    /\ Mutate(ResultBody(Cardinality(learnedCards), Len(cards)))
    /\ UNCHANGED <<textVars, storeVars, requests, responses, queryVars, currentIndex,
                   correctCount, quizVars, flashVars, spellVars>>

\* handleRestart of FlashcardMode; the button is on the complete screen
FlashcardHandleRestart ==
    /\ mode = "flashcard" /\ View = "Complete"
    /\ IF HasData
       THEN /\ cards' \in Perms(Data)
            /\ currentIndex' = 0
            /\ isFlipped' = FALSE
            /\ learnedCards' = {}
            /\ isComplete' = FALSE
       ELSE UNCHANGED <<cards, currentIndex, isFlipped, learnedCards,
                        isComplete>>
    /\ UNCHANGED <<textVars, storeVars, serverVars, queryVars, correctCount, quizVars,
                   spellVars>>

\* ---- SpellingMode

\* what the user can type
Inputs ==
    {<<>>, <<" ">>, <<" ", "a", "B", " ">>, <<"x">>}
        \cup {Text(w) : w \in WordIds}

\* the white space in use: a blank and a line break
WhiteSpace == {" ", "\n"}

RECURSIVE TrimStart(_)
TrimStart(str) ==
    IF Len(str) > 0 /\ Head(str) \in WhiteSpace
    THEN TrimStart(Tail(str)) ELSE str

RECURSIVE TrimEnd(_)
TrimEnd(str) ==
    IF Len(str) > 0 /\ str[Len(str)] \in WhiteSpace
    THEN TrimEnd(SubSeq(str, 1, Len(str) - 1)) ELSE str

\* String.prototype.trim
Trim(str) == TrimEnd(TrimStart(str))

\* String.prototype.toLowerCase on the letters in use
ToLowerCase(str) ==
    [i \in 1 .. Len(str) |->
        IF str[i] = "A" THEN "a" ELSE IF str[i] = "B" THEN "b" ELSE str[i]]

\* onChange of the input, which is disabled once the answer is checked
SpellingSetUserInput(input) ==
    /\ mode = "spelling" /\ View = "InProgress" /\ ~isChecked
    /\ userInput' = input
    /\ UNCHANGED <<textVars, storeVars, serverVars, queryVars, currentIndex,
                   correctCount, isComplete, quizVars, flashVars, words,
                   isChecked, isCorrect, showHint>>

\* the hint button: setShowHint(true)
SpellingShowHint ==
    /\ mode = "spelling" /\ View = "InProgress" /\ ~isChecked /\ ~showHint
    /\ showHint' = TRUE
    /\ UNCHANGED <<textVars, storeVars, serverVars, queryVars, currentIndex,
                   correctCount, isComplete, quizVars, flashVars, words,
                   userInput, isChecked, isCorrect>>

\* (mutant) the guess is compared as typed, trimmed only
isAnswerCorrectExact(input, word) == Trim(input) = Text(word)

\* handleCheck: userInput.trim().toLowerCase() ===
\* currentWord.word.toLowerCase()
isAnswerCorrect(input, word) ==
    ToLowerCase(Trim(input)) = ToLowerCase(Text(word))

\* handleCheck, from the check button or Enter in the input
SpellingHandleCheck ==
    /\ mode = "spelling" /\ View = "InProgress" /\ ~isChecked
    /\ IF Len(Trim(userInput)) = 0
       THEN UNCHANGED <<isCorrect, isChecked, correctCount>>
       ELSE LET currentWord == words[currentIndex + 1]
                correct == isAnswerCorrect(userInput, currentWord)
            IN  /\ isCorrect' = correct
                /\ isChecked' = TRUE
                /\ correctCount' = IF correct THEN correctCount + 1
                                   ELSE correctCount
    /\ UNCHANGED <<textVars, storeVars, serverVars, queryVars, currentIndex, isComplete,
                   quizVars, flashVars, words, userInput, showHint>>

\* handleNext of SpellingMode; the button is rendered when isChecked
SpellingHandleNext ==
    /\ mode = "spelling" /\ View = "InProgress" /\ isChecked
    /\ IF currentIndex < Len(words) - 1
       THEN /\ currentIndex' = currentIndex + 1
            /\ userInput' = <<>>
            /\ isChecked' = FALSE
            /\ isCorrect' = FALSE
            /\ showHint' = FALSE
            /\ UNCHANGED <<isComplete, network>>
       ELSE /\ isComplete' = TRUE
            /\ Mutate(ResultBody(correctCount, Len(words)))
            /\ UNCHANGED <<currentIndex, userInput, isChecked, isCorrect,
                           showHint>>
    /\ UNCHANGED <<textVars, storeVars, requests, responses, queryVars, correctCount,
                   quizVars, flashVars, words>>

\* handleRestart of SpellingMode; the button is on the complete screen
SpellingHandleRestart ==
    /\ mode = "spelling" /\ View = "Complete"
    /\ IF HasData
       THEN /\ words' \in Perms(Data)
            /\ currentIndex' = 0
            /\ userInput' = <<>>
            /\ isChecked' = FALSE
            /\ isCorrect' = FALSE
            /\ correctCount' = 0
            /\ isComplete' = FALSE
            /\ showHint' = FALSE
       ELSE UNCHANGED <<words, currentIndex, userInput, isChecked, isCorrect,
                        correctCount, isComplete, showHint>>
    /\ UNCHANGED <<textVars, storeVars, serverVars, queryVars, quizVars, flashVars>>

\* ---- Spec: one session and the server behind it

\* the request at the head of the wire reaches the route
ReceiveQuizResult(r) ==
    /\ Len(network) > 0
    /\ FirstIdle(r)
    /\ PostQuizResults(r, SessionUser, Head(network))
    /\ network' = Tail(network)

\* A mode page is opened, with or without ?collection=c1.  The query is
\* loading unless it is disabled; a disabled query reports isLoading as the
\* query library defines it for a query that never fetches.
Init ==
    /\ collections = {[id |-> "c1", userId |-> "u1", name |-> "first"],
                      [id |-> "c2", userId |-> "u2", name |-> "second"]}
    /\ vocabulary = {}
    /\ progress = {}
    /\ quizResults = {}
    /\ clock = 1
    /\ network = <<>>
    /\ requests = [r \in Reqs |-> IdleRequest]
    /\ responses = [r \in Reqs |-> [status |-> 0, body |-> 0]]
    /\ mode \in Modes
    /\ collectionId \in {Null, "c1"}
    /\ vocabularyData = {}
    /\ isLoading \in IF mode # "spelling" \/ Truthy(collectionId)
                     THEN {TRUE} ELSE BOOLEAN
    /\ currentIndex = 0
    /\ correctCount = 0
    /\ isComplete = FALSE
    /\ questions = <<>>
    /\ selectedAnswer = NoAnswer
    /\ isAnswered = FALSE
    /\ cards = <<>>
    /\ isFlipped = FALSE
    /\ learnedCards = {}
    /\ words = <<>>
    /\ userInput = <<>>
    /\ isChecked = FALSE
    /\ isCorrect = FALSE
    /\ showHint = FALSE
    /\ tab = "csv"
    /\ csvText = <<>>
    /\ jsonText = NoJson
    /\ parseErrors = <<>>
    /\ previewData = <<>>
    /\ hintWord = <<>>
    /\ hint = <<>>

Next ==
    \/ \E ws \in WordSets : VocabularyDelivered(ws)
    \/ VocabularyFailed
    \/ \E index \in 0 .. 2 : QuizHandleAnswerSelect(index)
    \/ QuizHandleNext /\ WithinPosts(MaxPosts)
    \/ QuizHandleRestart
    \/ FlashcardHandleFlip
    \/ FlashcardHandlePrevious
    \/ FlashcardHandleNext
    \/ FlashcardHandleMarkLearned
    \/ FlashcardHandleComplete /\ WithinPosts(MaxPosts)
    \/ FlashcardHandleRestart
    \/ \E input \in Inputs : SpellingSetUserInput(input)
    \/ SpellingShowHint
    \/ SpellingHandleCheck
    \/ SpellingHandleNext /\ WithinPosts(MaxPosts)
    \/ SpellingHandleRestart
    \/ \E r \in Reqs : ReceiveQuizResult(r)
    \/ \E r \in Reqs : SaveQuizResultGetProgress(r)
    \/ \E r \in Reqs : UpdateProgressGetProgress(r)
    \/ \E r \in Reqs : UpdateProgressWrite(r)

Spec == Init /\ [][Next]_vars

\* ---- SpecRuns: the session alone, for two runs; the results stay on the
\* wire

MaxRunPosts == 2

NextRuns ==
    \/ \E ws \in WordSets : VocabularyDelivered(ws)
    \/ VocabularyFailed
    \/ \E index \in 0 .. 2 : QuizHandleAnswerSelect(index)
    \/ QuizHandleNext /\ WithinPosts(MaxRunPosts)
    \/ QuizHandleRestart
    \/ FlashcardHandleFlip
    \/ FlashcardHandlePrevious
    \/ FlashcardHandleNext
    \/ FlashcardHandleMarkLearned
    \/ FlashcardHandleComplete /\ WithinPosts(MaxRunPosts)
    \/ FlashcardHandleRestart
    \/ \E input \in Inputs : SpellingSetUserInput(input)
    \/ SpellingShowHint
    \/ SpellingHandleCheck
    \/ SpellingHandleNext /\ WithinPosts(MaxRunPosts)
    \/ SpellingHandleRestart

SpecRuns == Init /\ [][NextRuns]_vars

\* ---- SpecLive: a session over the vocabulary the store holds; every fetch
\* the query makes is answered

\* the vocabulary row of word w, in collection c or in none
LiveRow(w, c) ==
    [id |-> w, word |-> "word", meaning |-> "meaning", example |-> Null,
     userId |-> SessionUser, collectionId |-> c, mastered |-> FALSE]

\* What the route named by the query key returns: GET
\* /api/collections/:id/vocabulary/words (getVocabularyByCollection) with a
\* collection id, GET /api/vocabulary (getVocabulary) without.
FetchedWords ==
    IF Truthy(collectionId)
    THEN {v.id : v \in {x \in vocabulary : x.collectionId = collectionId}}
    ELSE {v.id : v \in {x \in vocabulary : x.userId = SessionUser}}

\* the query's fetch is answered with the rows of the store
VocabularyFetched == VocabularyDelivered(FetchedWords)

InitLive ==
    /\ collections = {[id |-> "c1", userId |-> "u1", name |-> "first"],
                      [id |-> "c2", userId |-> "u2", name |-> "second"]}
    /\ vocabulary \in {{LiveRow(w, c[w]) : w \in ws} :
                          ws \in SUBSET WordIds, c \in [WordIds -> {Null, "c1"}]}
    /\ progress = {}
    /\ quizResults = {}
    /\ clock = MaxWords + 1
    /\ network = <<>>
    /\ requests = [r \in Reqs |-> IdleRequest]
    /\ responses = [r \in Reqs |-> [status |-> 0, body |-> 0]]
    /\ mode \in Modes
    /\ collectionId \in {Null, "c1"}
    /\ vocabularyData = {}
    /\ isLoading \in IF mode # "spelling" \/ Truthy(collectionId)
                     THEN {TRUE} ELSE BOOLEAN
    /\ currentIndex = 0
    /\ correctCount = 0
    /\ isComplete = FALSE
    /\ questions = <<>>
    /\ selectedAnswer = NoAnswer
    /\ isAnswered = FALSE
    /\ cards = <<>>
    /\ isFlipped = FALSE
    /\ learnedCards = {}
    /\ words = <<>>
    /\ userInput = <<>>
    /\ isChecked = FALSE
    /\ isCorrect = FALSE
    /\ showHint = FALSE
    /\ tab = "csv"
    /\ csvText = <<>>
    /\ jsonText = NoJson
    /\ parseErrors = <<>>
    /\ previewData = <<>>
    /\ hintWord = <<>>
    /\ hint = <<>>

NextLive ==
    \/ VocabularyFetched
    \/ \E index \in 0 .. 2 : QuizHandleAnswerSelect(index)
    \/ QuizHandleNext /\ WithinPosts(MaxPosts)
    \/ QuizHandleRestart
    \/ FlashcardHandleFlip
    \/ FlashcardHandlePrevious
    \/ FlashcardHandleNext
    \/ FlashcardHandleMarkLearned
    \/ FlashcardHandleComplete /\ WithinPosts(MaxPosts)
    \/ FlashcardHandleRestart
    \/ \E input \in Inputs : SpellingSetUserInput(input)
    \/ SpellingShowHint
    \/ SpellingHandleCheck
    \/ SpellingHandleNext /\ WithinPosts(MaxPosts)
    \/ SpellingHandleRestart

\* An enabled query fetches when the component mounts, and the server
\* answers the request: the fetch is weakly fair.  The user's steps are not.
SpecLive == InitLive /\ [][NextLive]_vars /\ WF_vars(VocabularyFetched)

\* ---- SpecQuiz: the questions of QuizMode for word sets of up to 3 words

MaxQuizWords == 4
MaxQuizSet == 3

\* the word sets the vocabulary query can deliver to the quiz; words 1 and
\* 3 have the same meaning
QuizWordSets ==
    {ws \in SUBSET (1 .. MaxQuizWords) : Cardinality(ws) <= MaxQuizSet}

\* QuizMode is opened, with or without ?collection=c1; the query is loading
InitQuiz ==
    /\ collections = {[id |-> "c1", userId |-> "u1", name |-> "first"],
                      [id |-> "c2", userId |-> "u2", name |-> "second"]}
    /\ vocabulary = {}
    /\ progress = {}
    /\ quizResults = {}
    /\ clock = 1
    /\ network = <<>>
    /\ requests = [r \in Reqs |-> IdleRequest]
    /\ responses = [r \in Reqs |-> [status |-> 0, body |-> 0]]
    /\ mode = "quiz"
    /\ collectionId \in {Null, "c1"}
    /\ vocabularyData = {}
    /\ isLoading = TRUE
    /\ currentIndex = 0
    /\ correctCount = 0
    /\ isComplete = FALSE
    /\ questions = <<>>
    /\ selectedAnswer = NoAnswer
    /\ isAnswered = FALSE
    /\ cards = <<>>
    /\ isFlipped = FALSE
    /\ learnedCards = {}
    /\ words = <<>>
    /\ userInput = <<>>
    /\ isChecked = FALSE
    /\ isCorrect = FALSE
    /\ showHint = FALSE
    /\ tab = "csv"
    /\ csvText = <<>>
    /\ jsonText = NoJson
    /\ parseErrors = <<>>
    /\ previewData = <<>>
    /\ hintWord = <<>>
    /\ hint = <<>>

\* the first fetch arrives and the questions are generated
NextQuiz ==
    \E ws \in QuizWordSets : ~HasData /\ VocabularyDelivered(ws)

SpecQuiz == InitQuiz /\ [][NextQuiz]_vars

\* ------------------------------------------- the import page: parsers

\* Texts are sequences of characters.

\* str.split("\n")
RECURSIVE SplitLines(_)
SplitLines(str) ==
    IF \E i \in 1 .. Len(str) : str[i] = "\n"
    THEN LET i == CHOOSE k \in 1 .. Len(str) :
                    str[k] = "\n" /\ \A j \in 1 .. k - 1 : str[j] # "\n"
         IN  <<SubSeq(str, 1, i - 1)>> \o SplitLines(SubSeq(str, i + 1, Len(str)))
    ELSE <<str>>

\* str.replace(/^"|"$/g, ""): a leading and a trailing quote are removed
StripQuotes(str) ==
    LET head == IF Len(str) > 0 /\ str[1] = "\"" THEN Tail(str) ELSE str
    IN  IF Len(head) > 0 /\ head[Len(head)] = "\""
        THEN SubSeq(head, 1, Len(head) - 1) ELSE head

\* (mutant) every comma ends a field, quoted or not
CsvCharStepUnquoted(st, char) ==
    IF char = "\""
    THEN [st EXCEPT !.inQuotes = ~st.inQuotes]
    ELSE IF char = ","
    THEN [st EXCEPT !.parts = Append(st.parts, StripQuotes(Trim(st.current))),
                    !.current = <<>>]
    ELSE [st EXCEPT !.current = Append(st.current, char)]

\* parseCSVLine: the body of the loop over the characters of the line
CsvCharStep(st, char) ==
    IF char = "\""
    THEN [st EXCEPT !.inQuotes = ~st.inQuotes]
    ELSE IF char = "," /\ ~st.inQuotes
    THEN [st EXCEPT !.parts = Append(st.parts, StripQuotes(Trim(st.current))),
                    !.current = <<>>]
    ELSE [st EXCEPT !.current = Append(st.current, char)]

RECURSIVE CsvLoop(_, _, _)
CsvLoop(line, i, st) ==
    IF i > Len(line) THEN st ELSE CsvLoop(line, i + 1, CsvCharStep(st, line[i]))

\* parseCSVLine: the fields of one line
parseCSVLine(line) ==
    LET st == CsvLoop(line, 1, [parts |-> <<>>, current |-> <<>>,
                                inQuotes |-> FALSE])
    IN  Append(st.parts, StripQuotes(Trim(st.current)))

\* the messages of the parsers
MustHaveWordAndMeaning == "Must have at least word and meaning"
CannotBeEmpty == "Word and meaning cannot be empty"
MustHaveProperties == "Must have word and meaning properties"
MustBeArray == "JSON must be an array of vocabulary objects"
InvalidJson == "Invalid JSON format"

\* parseCSV: the callback of lines.forEach, for the line at the 0-based
\* index; out is what errors and results hold before it.  An example that
\* is undefined is the empty text (example || undefined).
CsvLineStep(out, line, index) ==
    IF Len(Trim(line)) = 0 THEN out
    ELSE LET parts == parseCSVLine(line)
         IN  IF Len(parts) < 2
             THEN [out EXCEPT !.errors = Append(@,
                     [at |-> "Line", n |-> index + 1,
                      message |-> MustHaveWordAndMeaning])]
             ELSE IF Len(parts[1]) = 0 \/ Len(parts[2]) = 0
             THEN [out EXCEPT !.errors = Append(@,
                     [at |-> "Line", n |-> index + 1,
                      message |-> CannotBeEmpty])]
             ELSE [out EXCEPT !.results = Append(@,
                     [word |-> parts[1], meaning |-> parts[2],
                      example |-> IF Len(parts) >= 3 THEN parts[3] ELSE <<>>])]

\* (mutant) the lines after the first rejected line are not looked at
CsvForEachFirstError(lines, i, out) ==
    LET RECURSIVE Loop(_, _)
        Loop(k, acc) ==
            IF k > Len(lines) \/ Len(acc.errors) > 0 THEN acc
            ELSE Loop(k + 1, CsvLineStep(acc, lines[k], k - 1))
    IN  Loop(i, out)

\* lines.forEach((line, index) => ...), from the i-th line on
RECURSIVE CsvForEach(_, _, _)
CsvForEach(lines, i, out) ==
    IF i > Len(lines) THEN out
    ELSE CsvForEach(lines, i + 1, CsvLineStep(out, lines[i], i - 1))

\* parseCSV: what it hands to setParseErrors and what it returns
parseCSV(text) ==
    CsvForEach(SplitLines(Trim(text)), 1, [errors |-> <<>>, results |-> <<>>])

\* A JSON text is kept as what JSON.parse makes of it: it throws
\* ([t |-> "malformed"]) or returns a value.  Values carry their type.
Undefined == [t |-> "undefined"]
JsNull == [t |-> "null"]
JsString(str) == [t |-> "str", s |-> str]
JsNumber(n) == [t |-> "num", n |-> n]

\* the values of word, meaning and example in the objects typed
WordValues == {Undefined, JsString(<<>>), JsString(<<"a">>), JsNumber(5)}
MeaningValues == {Undefined, JsString(<<"b">>), JsNumber(0)}
ExampleValues == {Undefined, JsString(<<>>), JsString(<<"c">>), JsNull}

\* the elements of the arrays typed: objects, null, a number, a string
JsonElements ==
    {[t |-> "obj", word |-> w, meaning |-> m, example |-> x] :
        w \in WordValues, m \in MeaningValues, x \in ExampleValues}
    \cup {JsNull, JsNumber(5), JsString(<<"a">>)}

JsonArrays ==
    {[t |-> "array", items |-> items] :
        items \in UNION {[1 .. n -> JsonElements] : n \in 0 .. MaxItems}}

\* what the JSON text area can hold
JsonTexts ==
    {[t |-> "malformed"]}
    \cup {[t |-> "value", value |-> v] :
            v \in JsonArrays \cup {JsNull, JsNumber(5),
                   [t |-> "obj", word |-> JsString(<<"a">>),
                    meaning |-> JsString(<<"b">>), example |-> Undefined]}}

\* item.word and the like: a property of an object, undefined on a number
\* or a string; on null the access throws (the caller checks for that)
Property(item, name) ==
    IF item.t = "obj" THEN item[name] ELSE Undefined

\* !v is false
TruthyValue(v) ==
    \/ v.t = "str" /\ Len(v.s) > 0
    \/ v.t = "num" /\ v.n # 0
    \/ v.t = "obj"

\* String(v) of a string or of a number from 0 to 9
StringOf(v) ==
    IF v.t = "str" THEN v.s
    ELSE <<<<"0", "1", "2", "3", "4", "5", "6", "7", "8", "9">>[v.n + 1]>>

\* parseJSON: the callback of data.forEach for the item at the 0-based
\* index; reading a property of null throws, which ends the loop
JsonItemStep(out, item, index) ==
    IF out.thrown THEN out
    ELSE IF item.t = "null" THEN [out EXCEPT !.thrown = TRUE]
    ELSE IF ~TruthyValue(Property(item, "word"))
            \/ ~TruthyValue(Property(item, "meaning"))
    THEN [out EXCEPT !.errors = Append(@,
            [at |-> "Item", n |-> index + 1, message |-> MustHaveProperties])]
    ELSE [out EXCEPT !.results = Append(@,
            [word |-> StringOf(Property(item, "word")),
             meaning |-> StringOf(Property(item, "meaning")),
             example |-> IF TruthyValue(Property(item, "example"))
                         THEN StringOf(Property(item, "example")) ELSE <<>>])]

\* data.forEach((item, index) => ...), from the i-th item on
RECURSIVE JsonForEach(_, _, _)
JsonForEach(items, i, out) ==
    IF i > Len(items) THEN out
    ELSE JsonForEach(items, i + 1, JsonItemStep(out, items[i], i - 1))

\* an error that names no line or item
GlobalError(message) == [at |-> "", n |-> 0, message |-> message]

\* parseJSON: what it hands to setParseErrors and what it returns
parseJSON(text) ==
    IF text.t = "malformed"
    THEN [errors |-> <<GlobalError(InvalidJson)>>, results |-> <<>>]
    ELSE IF text.value.t # "array"
    THEN [errors |-> <<GlobalError(MustBeArray)>>, results |-> <<>>]
    ELSE LET out == JsonForEach(text.value.items, 1,
                       [errors |-> <<>>, results |-> <<>>, thrown |-> FALSE])
         IN  IF out.thrown
             THEN [errors |-> <<GlobalError(InvalidJson)>>, results |-> <<>>]
             ELSE [errors |-> out.errors, results |-> out.results]

\* the characters typed into the CSV text area
CsvChars == {"a", "b", ",", "\"", " ", "\n"}

CsvTexts == UNION {[1 .. n -> CsvChars] : n \in 0 .. MaxText}

\* handlePreviewCSV: the preview button of the CSV tab
HandlePreviewCSV ==
    /\ tab = "csv"
    /\ LET parsed == parseCSV(csvText)
       IN  /\ parseErrors' = parsed.errors
           /\ previewData' = parsed.results
    /\ UNCHANGED <<storeVars, serverVars, sessionVars, tab, csvText, jsonText,
                   hintWord, hint>>

\* handlePreviewJSON: the preview button of the JSON tab
HandlePreviewJSON ==
    /\ tab = "json"
    /\ LET parsed == parseJSON(jsonText)
       IN  /\ parseErrors' = parsed.errors
           /\ previewData' = parsed.results
    /\ UNCHANGED <<storeVars, serverVars, sessionVars, tab, csvText, jsonText,
                   hintWord, hint>>

\* the import page is open on one tab with a text in its text area
InitParse ==
    /\ collections = {[id |-> "c1", userId |-> "u1", name |-> "first"],
                      [id |-> "c2", userId |-> "u2", name |-> "second"]}
    /\ vocabulary = {}
    /\ progress = {}
    /\ quizResults = {}
    /\ clock = 1
    /\ network = <<>>
    /\ requests = [r \in Reqs |-> IdleRequest]
    /\ responses = [r \in Reqs |-> [status |-> 0, body |-> 0]]
    /\ mode = "none"
    /\ collectionId = Null
    /\ vocabularyData = {}
    /\ isLoading = FALSE
    /\ currentIndex = 0
    /\ correctCount = 0
    /\ isComplete = FALSE
    /\ questions = <<>>
    /\ selectedAnswer = NoAnswer
    /\ isAnswered = FALSE
    /\ cards = <<>>
    /\ isFlipped = FALSE
    /\ learnedCards = {}
    /\ words = <<>>
    /\ userInput = <<>>
    /\ isChecked = FALSE
    /\ isCorrect = FALSE
    /\ showHint = FALSE
    /\ tab \in {"csv", "json"}
    /\ csvText \in IF tab = "csv" THEN CsvTexts ELSE {<<>>}
    /\ jsonText \in IF tab = "json" THEN JsonTexts ELSE {NoJson}
    /\ parseErrors = <<>>
    /\ previewData = <<>>
    /\ hintWord = <<>>
    /\ hint = <<>>

NextParse == HandlePreviewCSV \/ HandlePreviewJSON

SpecParse == InitParse /\ [][NextParse]_vars

\* ----------------------------------------------- the spelling hint

MaxHint == 7

\* the letters of the words the hint is computed for
HintChars == {"a", "b"}

\* the words of 1 to MaxHint letters
HintWords == UNION {[1 .. n -> HintChars] : n \in 1 .. MaxHint}

\* (mutant) Math.floor in place of Math.ceil
generateHintFloor(word) ==
    LET length == Len(word)
    IN  IF length <= 2
        THEN <<word[1]>> \o [i \in 1 .. length - 1 |-> "_"]
        ELSE LET showCount == length \div 3
             IN  [i \in 1 .. length |->
                     IF i - 1 < showCount THEN word[i] ELSE "_"]

\* generateHint; Math.ceil(length / 3) is (length + 2) \div 3
generateHint(word) ==
    LET length == Len(word)
    IN  IF length <= 2
        THEN <<word[1]>> \o [i \in 1 .. length - 1 |-> "_"]
        ELSE LET showCount == (length + 2) \div 3
             IN  [i \in 1 .. length |->
                     IF i - 1 < showCount THEN word[i] ELSE "_"]

\* the render of the hint box: {generateHint(currentWord.word)}
RenderHint ==
    /\ Len(hintWord) > 0 /\ hint = <<>>
    /\ hint' = generateHint(hintWord)
    /\ UNCHANGED <<storeVars, serverVars, sessionVars, tab, csvText,
                   jsonText, parseErrors, previewData, hintWord>>

\* the hint is asked for a word of the collection
InitHint ==
    /\ collections = {[id |-> "c1", userId |-> "u1", name |-> "first"],
                      [id |-> "c2", userId |-> "u2", name |-> "second"]}
    /\ vocabulary = {}
    /\ progress = {}
    /\ quizResults = {}
    /\ clock = 1
    /\ network = <<>>
    /\ requests = [r \in Reqs |-> IdleRequest]
    /\ responses = [r \in Reqs |-> [status |-> 0, body |-> 0]]
    /\ mode = "none"
    /\ collectionId = Null
    /\ vocabularyData = {}
    /\ isLoading = FALSE
    /\ currentIndex = 0
    /\ correctCount = 0
    /\ isComplete = FALSE
    /\ questions = <<>>
    /\ selectedAnswer = NoAnswer
    /\ isAnswered = FALSE
    /\ cards = <<>>
    /\ isFlipped = FALSE
    /\ learnedCards = {}
    /\ words = <<>>
    /\ userInput = <<>>
    /\ isChecked = FALSE
    /\ isCorrect = FALSE
    /\ showHint = FALSE
    /\ tab = "csv"
    /\ csvText = <<>>
    /\ jsonText = NoJson
    /\ parseErrors = <<>>
    /\ previewData = <<>>
    /\ hintWord \in HintWords
    /\ hint = <<>>

NextHint == RenderHint

SpecHint == InitHint /\ [][NextHint]_vars

\* ------------------------------------------------------------- claims

\* C2 (SpecSeq): a saveQuizResult call for user u and collection c that no
\* other call overlaps ends with exactly one progress row of (u, c): with
\* totalQuizzes = 1 and correctAnswers = the result's when there was none
\* before, else the row that was there with totalQuizzes one more and
\* correctAnswers more by the result's; lastStudied is the time of the call.
C2_SingleRollup ==
    [][\A r \in Reqs :
         (requests[r].pc = "write" /\ requests'[r].pc = "idle") =>
           LET data   == requests[r].data
               before == getProgress(data.userId, data.collectionId)
               after  == {p \in progress' :
                            /\ p.userId = data.userId
                            /\ p.collectionId = data.collectionId}
           IN  /\ Cardinality(after) = 1
               /\ \A a \in after :
                    /\ a.lastStudied = clock
                    /\ before = {} =>
                         /\ a.totalQuizzes = 1
                         /\ a.correctAnswers = data.correctAnswers
                    /\ \A b \in before :
                         /\ a.id = b.id
                         /\ a.totalQuizzes = b.totalQuizzes + 1
                         /\ a.correctAnswers
                              = b.correctAnswers + data.correctAnswers
    ]_vars

\* a second session of the same pair was rolled into a row that already
\* counted a correct answer
C2_Witness ==
    \E p \in progress : p.totalQuizzes = 2 /\ p.correctAnswers = 2

\* C3 (SpecStore): at most one progress row per (user, collection)
C3_OneProgressPerPair ==
    \A p, q \in progress :
        (p.userId = q.userId /\ p.collectionId = q.collectionId) => p = q

\* C8 (SpecSeq): the step that stores a result with no collectionId
\* changes no progress row, answers 201 and leaves the handler with nothing
\* more to do (no rollup is pending)
C8_NoCollectionNoRollup ==
    [][\A row \in quizResults' \ quizResults :
         row.collectionId = Null =>
           /\ progress' = progress
           /\ \A r \in Reqs : requests'[r].pc = requests[r].pc
           /\ \E r \in Reqs : responses'[r] = [status |-> 201, body |-> row.id]
    ]_vars

\* a result with no collectionId was stored after a progress row existed
C8_Witness ==
    \E row \in quizResults, p \in progress :
        row.collectionId = Null /\ p.id < row.id
\* an item the store accepts: a word that fits the column and a meaning
ValidTriple(item) ==
    item.word # Null /\ Len(item.word) <= WordMaxLen /\ item.meaning # Null

\* C9 (SpecImport): an import of N valid triples with no target collection
\* adds exactly N rows owned by the caller, one per item in the batch, each
\* with collectionId null and mastered false, answers 201 with N as the
\* imported count, and leaves every existing row as it was, also when a
\* word of the batch is one the caller already has.
C9_ImportAddsN ==
    [][\A r \in Reqs :
        (requests[r].pc = "insert" /\ requests'[r].pc = "idle") =>
          LET data  == requests[r].data
              N     == Len(data.items)
              added == vocabulary' \ vocabulary
          IN  ((\A i \in 1 .. N : ValidTriple(data.items[i]))
                /\ ~Truthy(data.collectionId)) =>
                /\ vocabulary \subseteq vocabulary'
                /\ Cardinality(added) = N
                /\ \A row \in added :
                     /\ row.userId = data.userId
                     /\ row.collectionId = Null
                     /\ row.mastered = FALSE
                     /\ \A old \in vocabulary : old.id # row.id
                /\ \A item \in ImportItems :
                     Cardinality({row \in added :
                        /\ row.word = item.word
                        /\ row.meaning = item.meaning
                        /\ row.example = OrNull(item.example)})
                     = Cardinality({i \in 1 .. N : data.items[i] = item})
                /\ responses'[r] = [status |-> 201, body |-> N]]_vars

\* two imports of the same word: the caller has it twice
C9_Witness ==
    \E a, b \in vocabulary :
        /\ a.id # b.id /\ a.userId = b.userId
        /\ a.word = b.word /\ a.meaning = b.meaning
        /\ a.collectionId = Null /\ b.collectionId = Null
        /\ \E r \in Reqs : responses[r] = [status |-> 201, body |-> 1]

\* C10 (SpecImport): when the store rejects a row of the batch (or its
\* owner or collection reference), the import leaves the vocabulary rows
\* exactly as they were and the caller is answered 500, not an imported count.
C10_ImportAtomic ==
    [][\A r \in Reqs :
        (requests[r].pc = "insert" /\ requests'[r].pc = "idle") =>
          LET data   == requests[r].data
              values == ImportValues(data.userId, data.items, data.collectionId)
          IN  (\E i \in 1 .. Len(values) : ~VocabularyRowOk(values[i])) =>
                /\ vocabulary' = vocabulary
                /\ responses'[r] = [status |-> 500, body |-> 0]]_vars

\* an import failed although rows were stored before it
C10_Witness ==
    /\ vocabulary # {}
    /\ \E r \in Reqs : responses[r].status = 500
    /\ \A r \in Reqs : requests[r].pc = "idle"


\* C1 (SpecStore): every stored quiz result has correctAnswers <=
\* totalQuestions, whatever request body POST /api/quiz-results was sent.
C1_CorrectAtMostTotal ==
    \A q \in quizResults : q.correctAnswers <= q.totalQuestions

\* C4 (Spec): the step that finalizes a session submits one body whose
\* totalQuestions is the number of items of the session, whose
\* correctAnswers is the running count (the number of learned cards in
\* flashcard mode) and whose score is (correctAnswers / totalQuestions) *
\* 100, a number from 0 to 100.
C4_ScoreAtFinalization ==
    [][(~isComplete /\ isComplete') =>
         /\ Len(network') = Len(network) + 1
         /\ LET body == network'[Len(network')]
            IN  /\ body.mode = mode
                /\ body.totalQuestions = Len(Items)
                /\ body.correctAnswers = Count
                /\ body.score = Percent(Count, Len(Items))
                /\ Leq(<<0, 1>>, body.score)
                /\ Leq(body.score, <<100, 1>>)]_vars

\* C5 (Spec): in quiz mode, once an option is selected for the current
\* question no step changes the selected answer or the running count while
\* the question stays answered, and the step that selects the first option
\* adds exactly 1 to the running count when the selected index is the
\* question's correctIndex and adds nothing otherwise.
C5_AnswerLocking ==
    [][/\ (mode = "quiz" /\ isAnswered /\ isAnswered'
             /\ currentIndex' = currentIndex)
          => (selectedAnswer' = selectedAnswer /\ correctCount' = correctCount)
       /\ (mode = "quiz" /\ ~isAnswered /\ isAnswered')
          => /\ selectedAnswer' \in
                  0 .. Len(questions[currentIndex + 1].options) - 1
             /\ correctCount' = correctCount +
                  (IF selectedAnswer' = questions[currentIndex + 1].correctIndex
                   THEN 1 ELSE 0)
             /\ currentIndex' = currentIndex]_vars

\* the second question was answered wrongly after a right first answer, and
\* another option was clicked afterwards
C5_Witness ==
    /\ mode = "quiz" /\ View = "InProgress" /\ isAnswered
    /\ currentIndex = 1 /\ correctCount = 1
    /\ selectedAnswer # questions[2].correctIndex
    /\ Len(questions[2].options) > 1


\* C6 (Spec): a request is put on the wire only by the step that finalizes
\* a session; every other step that changes the session (answer, check,
\* hint, input, flip, toggle learned, previous, next, restart, delivery of
\* words) leaves the wire, the quiz results and the progress rows as they
\* are; a quiz result is stored only by taking a request from the wire, and
\* a progress row changes only in the rollup of a stored result.
C6_NoWriteBeforeFinalization ==
    [][/\ (sessionVars' # sessionVars /\ ~(~isComplete /\ isComplete'))
          => (network' = network /\ quizResults' = quizResults
                /\ progress' = progress)
       /\ (Len(network') > Len(network)) => (~isComplete /\ isComplete')
       /\ (quizResults' # quizResults)
          => (Len(network) > 0 /\ network' = Tail(network))
       /\ (progress' # progress)
          => \E r \in Reqs :
               requests[r].pc = "write" /\ requests[r].data \in quizResults
      ]_vars

\* a session left on its second item with an item counted, nothing written
C6_Witness ==
    /\ View = "InProgress" /\ currentIndex = 1 /\ Count >= 1
    /\ network = <<>> /\ quizResults = {} /\ progress = {}
    /\ \A r \in Reqs : requests[r].pc = "idle"

\* C7 (Spec): a step that ends with a fetched word set that is empty, or
\* has fewer than 2 words in quiz mode, ends in the insufficient-data view
\* (not loading, not in progress, not the crashed frame), builds no
\* question, card or word list, submits nothing and changes no session
\* state.
C7_InsufficientData ==
    [][(/\ vocabularyData' # {}
        /\ Cardinality(CHOOSE ws \in vocabularyData' : TRUE) < MinWords)
       => /\ View' = "Insufficient"
          /\ Items' = Items
          /\ Len(network') <= Len(network)
          /\ <<currentIndex, correctCount, isComplete, selectedAnswer,
               isAnswered, isFlipped, learnedCards, userInput, isChecked,
               isCorrect, showHint>>'
             = <<currentIndex, correctCount, isComplete, selectedAnswer,
                 isAnswered, isFlipped, learnedCards, userInput, isChecked,
                 isCorrect, showHint>>]_vars

\* the fetch of a quiz returned one word
C7_Witness ==
    /\ mode = "quiz" /\ HasData /\ Cardinality(Data) = 1
    /\ View = "Insufficient" /\ questions = <<>>


\* C11 (SpecParse): a preview of a delimited text gives every non-blank
\* line exactly one outcome, a record or an error, and a blank line none:
\* the errors and the records together are as many as the non-blank lines,
\* hence at most as many as the lines; every rejected line has its error
\* (not only the first), in increasing line order, and the records are the
\* accepted lines in input order.
C11_PartialSuccess ==
    [][tab = "csv" =>
        LET raw      == SplitLines(csvText)
            lines    == SplitLines(Trim(csvText))
            nonBlank == {i \in 1 .. Len(lines) : Len(Trim(lines[i])) > 0}
            rejected == {parseErrors'[k].n : k \in 1 .. Len(parseErrors')}
            accepted == nonBlank \ rejected
        IN  /\ Len(parseErrors') + Len(previewData')
                 = Cardinality({i \in 1 .. Len(raw) : Len(Trim(raw[i])) > 0})
            /\ Len(parseErrors') + Len(previewData') <= Len(raw)
            /\ rejected \subseteq nonBlank
            /\ Cardinality(rejected) = Len(parseErrors')
            /\ \A j, k \in 1 .. Len(parseErrors') :
                 j < k => parseErrors'[j].n < parseErrors'[k].n
            /\ Cardinality(accepted) = Len(previewData')
            /\ \A k \in 1 .. Len(previewData') :
                 \E i \in accepted :
                   /\ Cardinality({j \in accepted : j < i}) = k - 1
                   /\ previewData'[k].word = parseCSVLine(lines[i])[1]
                   /\ previewData'[k].meaning = parseCSVLine(lines[i])[2]
       ]_vars

\* a rejected line, a blank line and an accepted line were previewed
C11_Witness ==
    /\ tab = "csv"
    /\ Len(SplitLines(csvText)) = 3
    /\ Len(Trim(SplitLines(csvText)[2])) = 0
    /\ Len(parseErrors) = 1 /\ Len(previewData) = 1
    /\ parseErrors[1].n = 1


\* C12 (SpecParse): in a one-line delimited text a comma ends a field only
\* when an even number of quote characters precedes it; every quote
\* character is dropped, and the text between two such commas, without its
\* quotes and trimmed, is the field.  The preview of a line with at least
\* two fields and a non-empty word and meaning is the record of its first
\* three fields, so a quoted field keeps the commas inside it.
C12_QuotedFields ==
    [][(tab = "csv" /\ \A i \in 1 .. Len(csvText) : csvText[i] # "\n"
          /\ Len(Trim(csvText)) > 0) =>
        LET line   == Trim(csvText)
            Quotes(i) == Cardinality({j \in 1 .. i - 1 : line[j] = "\""})
            splits == {i \in 1 .. Len(line) :
                         line[i] = "," /\ Quotes(i) % 2 = 0}
            From(f) == IF f = 1 THEN 1
                       ELSE 1 + CHOOSE i \in splits :
                              Cardinality({j \in splits : j < i}) = f - 2
            To(f)   == IF f = Cardinality(splits) + 1 THEN Len(line)
                       ELSE (CHOOSE i \in splits :
                              Cardinality({j \in splits : j < i}) = f - 1) - 1
            Field(f) == Trim(SelectSeq(SubSeq(line, From(f), To(f)),
                                       LAMBDA c : c # "\""))
            fields == Cardinality(splits) + 1
        IN  IF fields >= 2 /\ Len(Field(1)) > 0 /\ Len(Field(2)) > 0
            THEN /\ Len(previewData') = 1
                 /\ previewData'[1].word = Field(1)
                 /\ previewData'[1].meaning = Field(2)
                 /\ previewData'[1].example =
                      IF fields >= 3 THEN Field(3) ELSE <<>>
                 /\ Len(parseErrors') = 0
            ELSE Len(previewData') = 0 /\ Len(parseErrors') = 1
       ]_vars

\* the word of the previewed record is a quoted field with a comma in it
C12_Witness ==
    /\ tab = "csv"
    /\ Len(previewData) = 1
    /\ \E i \in 1 .. Len(previewData[1].word) : previewData[1].word[i] = ","
    /\ Len(previewData[1].meaning) > 0


\* C13 (SpecParse): every error of a delimited-text preview names the
\* 1-based position n, in the text as typed and counting blank lines, of a
\* non-blank line, with the message "Must have at least word and meaning"
\* when that line has fewer than 2 fields and "Word and meaning cannot be
\* empty" when its word or meaning is empty; every such line has its error.
C13_LineNumbers ==
    [][tab = "csv" =>
        LET raw == SplitLines(csvText)
            Bad(i) == \/ Len(parseCSVLine(raw[i])) < 2
                      \/ Len(parseCSVLine(raw[i])[1]) = 0
                      \/ Len(parseCSVLine(raw[i])[2]) = 0
        IN  /\ \A k \in 1 .. Len(parseErrors') :
                 LET err == parseErrors'[k]
                 IN  /\ err.at = "Line"
                     /\ err.n \in 1 .. Len(raw)
                     /\ Len(Trim(raw[err.n])) > 0
                     /\ Bad(err.n)
                     /\ err.message =
                          IF Len(parseCSVLine(raw[err.n])) < 2
                          THEN MustHaveWordAndMeaning ELSE CannotBeEmpty
            /\ \A i \in 1 .. Len(raw) :
                 (Len(Trim(raw[i])) > 0 /\ Bad(i)) =>
                    \E k \in 1 .. Len(parseErrors') : parseErrors'[k].n = i
       ]_vars


\* C14 (SpecParse): a preview of a JSON text that is well formed and not
\* an array gives exactly one error and no record; of an array it gives,
\* for every element without a word or a meaning (null and non-objects
\* included), the error "Item {i}: Must have word and meaning properties"
\* with its 1-based index i, and a record for every other element, in
\* order; only a text that is not well formed gives up the whole batch.
C14_StructuredArray ==
    [][tab = "json" =>
        IF jsonText.t = "malformed"
        THEN Len(parseErrors') = 1 /\ Len(previewData') = 0
        ELSE IF jsonText.value.t # "array"
        THEN Len(parseErrors') = 1 /\ Len(previewData') = 0
        ELSE LET items == jsonText.value.items
                 Missing(i) ==
                     \/ items[i].t # "obj"
                     \/ ~TruthyValue(items[i].word)
                     \/ ~TruthyValue(items[i].meaning)
                 bad  == {i \in 1 .. Len(items) : Missing(i)}
                 good == (1 .. Len(items)) \ bad
             IN  /\ Len(parseErrors') = Cardinality(bad)
                 /\ \A i \in bad : \E k \in 1 .. Len(parseErrors') :
                      parseErrors'[k] = [at |-> "Item", n |-> i,
                                         message |-> MustHaveProperties]
                 /\ Len(previewData') = Cardinality(good)
                 /\ \A i \in good :
                      LET rec == previewData'[Cardinality({j \in good : j < i}) + 1]
                      IN  /\ rec.word = StringOf(items[i].word)
                          /\ rec.meaning = StringOf(items[i].meaning)
       ]_vars


\* C15 (SpecEdit): in every reachable store state, each vocabulary row
\* whose collectionId is not null references an existing collection whose
\* owner is the row's owner, whether the row came from an import or from
\* an edit, and also when the collection named belongs to another user.
C15_CollectionOfSameOwner ==
    \A v \in vocabulary :
        v.collectionId # Null =>
            \E c \in collections :
                c.id = v.collectionId /\ c.userId = v.userId


\* C16 (SpecEdit): a step of a handler that serves a request of user A
\* (update or delete of a collection or of a vocabulary row, import,
\* quiz result and its progress rollup) neither creates, changes nor
\* deletes a row of any table that is owned by another user.
C16_WritesScopedToOwner ==
    [][\A r \in Reqs :
         (requests[r].pc # "idle" /\ requests'[r] # requests[r]) =>
            LET A == requests[r].data.userId
            IN  /\ {c \in collections' : c.userId # A}
                      = {c \in collections : c.userId # A}
                /\ {v \in vocabulary' : v.userId # A}
                      = {v \in vocabulary : v.userId # A}
                /\ {p \in progress' : p.userId # A}
                      = {p \in progress : p.userId # A}
                /\ {q \in quizResults' : q.userId # A}
                      = {q \in quizResults : q.userId # A}
      ]_vars


\* C17 (SpecEdit): deleteCollection(c) keeps every vocabulary row: a row
\* that referenced c is still there with collectionId null and its other
\* fields unchanged, every other row is unchanged, each user has as many
\* words as before, and no row references c afterwards.
C17_DeleteDetaches ==
    [][\A r \in Reqs :
         requests[r].pc = "deleteCollection" =>
            LET c == requests[r].data.collection
            IN  /\ \A v \in vocabulary :
                     IF v.collectionId = c
                     THEN [v EXCEPT !.collectionId = Null] \in vocabulary'
                     ELSE v \in vocabulary'
                /\ \A u \in Users :
                     Cardinality({v \in vocabulary' : v.userId = u})
                       = Cardinality({v \in vocabulary : v.userId = u})
                /\ \A v \in vocabulary' : v.collectionId # c
                /\ c \notin {k.id : k \in collections'}
      ]_vars

\* collection c1 was deleted and the word u1 had imported into it is still
\* there, detached
C17_Witness ==
    /\ "c1" \notin CollectionIds
    /\ \E r \in Reqs : responses[r].status = 204
    /\ [id |-> 1, word |-> "cat", meaning |-> "animal",
        example |-> "my cat", userId |-> "u1", collectionId |-> Null,
        mastered |-> FALSE] \in vocabulary


\* C18 (Spec): during a session the learned set changes only by the
\* toggle of the current flashcard, that card and no other, so that
\* marking it twice restores the learned set; and the
\* result submitted by Complete Session depends only on the final state of
\* the cards: with k of the n cards learned it has correctAnswers = k,
\* totalQuestions = n and score = (k / n) * 100.
C18_FlashcardScore ==
    [][mode = "flashcard" =>
        /\ (~isComplete /\ learnedCards' # learnedCards) =>
              LET currentCard == cards[currentIndex + 1]
              IN  /\ learnedCards' \ {currentCard}
                        = learnedCards \ {currentCard}
                  /\ currentCard \in learnedCards'
                        <=> currentCard \notin learnedCards
        /\ (isComplete' /\ ~isComplete) =>
              LET n == Len(cards)
                  k == Cardinality({i \in 1 .. n : cards[i] \in learnedCards})
                  body == network'[Len(network')]
              IN  /\ Len(network') = Len(network) + 1
                  /\ body.correctAnswers = k
                  /\ body.totalQuestions = n
                  /\ body.score = Percent(k, n)
      ]_vars


\* C19 (Spec): in spelling mode a check marks the current word correct
\* exactly when the guess, trimmed and lower-cased, equals the lower-cased
\* word, and counts it once; while the word stays checked no step changes
\* the verdict or the correct count.
C19_SpellingCheck ==
    [][mode = "spelling" =>
        /\ (~isChecked /\ isChecked') =>
              LET target == Text(words[currentIndex + 1])
                  equal  == ToLowerCase(Trim(userInput)) = ToLowerCase(target)
              IN  /\ isCorrect' <=> equal
                  /\ correctCount' = correctCount + (IF equal THEN 1 ELSE 0)
        /\ (isChecked /\ isChecked') =>
              /\ isCorrect' = isCorrect
              /\ correctCount' = correctCount
      ]_vars

\* the guess " aB " was checked against the word "Ab" and judged correct
C19_Witness ==
    /\ mode = "spelling" /\ isChecked /\ isCorrect
    /\ correctCount = 1
    /\ userInput = <<" ", "a", "B", " ">>
    /\ currentIndex + 1 \in DOMAIN words
    /\ words[currentIndex + 1] = 1


\* C20 (SpecHint): the hint of a word of L >= 1 characters has L
\* characters: the first ceil(L / 3) characters of the word (1 character
\* when L <= 2), then one '_' for each remaining character.
C20_HintShape ==
    Len(hint) > 0 =>
        LET L     == Len(hintWord)
            ceil  == CHOOSE n \in 0 .. L : 3 * n >= L /\ 3 * (n - 1) < L
            shown == IF L <= 2 THEN 1 ELSE ceil
        IN  /\ Len(hint) = L
            /\ \A i \in 1 .. L :
                 hint[i] = IF i <= shown THEN hintWord[i] ELSE "_"

\* the hint of a word of 4 letters shows the first 2 of them
C20_Witness ==
    /\ hintWord = <<"a", "b", "b", "a">>
    /\ hint = <<"a", "b", "_", "_">>


\* C21 (SpecQuiz): every question generated from a set of n >= 2 words
\* has 1 + min(2, n - 1) options, 3 when n >= 3, also when words of the set
\* have the same meaning.
C21_DistractorCount ==
    (mode = "quiz" /\ HasData /\ Cardinality(Data) >= 2) =>
        LET n == Cardinality(Data)
        IN  \A i \in DOMAIN questions :
               Len(questions[i].options)
                  = 1 + (IF n - 1 < 2 THEN n - 1 ELSE 2)


\* C22 (SpecQuiz): in every generated question correctIndex is an index
\* of the options and the option there is the meaning of the question's
\* word; from exactly 2 words every question has at most 2 options; and
\* the questions are one per word of the set.
C22_CorrectIndex ==
    (mode = "quiz" /\ HasData /\ Cardinality(Data) >= 2
        /\ Len(questions) > 0) =>
        /\ \A i \in DOMAIN questions :
              LET q == questions[i]
              IN  /\ q.correctIndex \in 0 .. Len(q.options) - 1
                  /\ q.options[q.correctIndex + 1] = Meaning(q.word)
                  /\ Cardinality(Data) = 2 => Len(q.options) <= 2
        /\ Len(questions) = Cardinality(Data)
        /\ \A w \in Data :
              Cardinality({i \in DOMAIN questions : questions[i].word = w}) = 1

\* three questions were generated, one of them with the meaning of its
\* word as the last of 3 options
C22_Witness ==
    /\ mode = "quiz" /\ HasData /\ Cardinality(Data) = 3
    /\ Len(questions) = 3
    /\ \E i \in DOMAIN questions :
          /\ questions[i].correctIndex = 2
          /\ Len(questions[i].options) = 3


\* C23 (SpecStats): the averageAccuracy that getDashboardStats computes is
\* the unweighted mean of the scores of the quiz results of the requesting
\* user, results of other users not counted, and 0 when the user has no
\* result.
C23_AverageAccuracy ==
    [][\A r \in Reqs :
         (requests[r].pc = "results" /\ requests'[r].pc = "recent") =>
            LET own == {q \in quizResults :
                          q.userId = requests[r].data.userId}
                avg == requests'[r].data.averageAccuracy
                RECURSIVE Total(_)
                Total(S) ==
                    IF S = {} THEN <<0, 1>>
                    ELSE LET q == CHOOSE x \in S : TRUE
                             t == Total(S \ {q})
                         IN  <<q.score[1] * t[2] + t[1] * q.score[2],
                               q.score[2] * t[2]>>
            IN  IF own = {} THEN avg = <<0, 1>>
                ELSE /\ avg[2] # 0
                     /\ avg[1] * Total(own)[2] * Cardinality(own)
                           = Total(own)[1] * avg[2]
      ]_vars

\* the stats of u1 are computed while u1 has the results 100 and 50
C23_Witness ==
    \E r \in Reqs :
        /\ requests[r].pc = "recent"
        /\ requests[r].data.userId = "u1"
        /\ requests[r].data.averageAccuracy = <<75, 1>>
        /\ Cardinality({q \in quizResults : q.userId = "u1"}) = 2


\* C24 (Spec): in quiz and spelling mode the current index changes only
\* by an advance of exactly 1 from an answered (checked) question to a
\* question of the sequence, or by a restart to 0; the session becomes
\* complete only by an advance from the answered last question, which
\* keeps the index; and during a run the questions already answered stay
\* in their places, so that a complete session has had every question
\* answered exactly once.
C24_SequentialOrder ==
    [][(mode \in {"quiz", "spelling"}) =>
        LET answered == IF mode = "quiz" THEN isAnswered ELSE isChecked
            before   == IF mode = "quiz" THEN questions ELSE words
            after    == IF mode = "quiz" THEN questions' ELSE words'
        IN  /\ currentIndex' # currentIndex =>
                  \/ /\ ~isComplete /\ answered
                     /\ currentIndex' = currentIndex + 1
                     /\ currentIndex' < Len(before)
                  \/ isComplete /\ ~isComplete' /\ currentIndex' = 0
            /\ (~isComplete /\ isComplete') =>
                  /\ answered
                  /\ currentIndex' = currentIndex
                  /\ currentIndex = Len(before) - 1
            /\ (~isComplete /\ ~isComplete') =>
                  \A i \in DOMAIN before :
                      (i <= currentIndex \/ (i = currentIndex + 1 /\ answered))
                         => (i \in DOMAIN after /\ after[i] = before[i])
      ]_vars


\* C25 (Spec): once a session has its item sequence, no step before its
\* finalization changes the order or the number of the items; in
\* particular a delivery of another word set by the query, which keeps the
\* current index and the running count, leaves the sequence as it is.
C25_SequenceFixed ==
    [][(mode \in Modes /\ Len(Items) > 0 /\ ~isComplete /\ ~isComplete') =>
          Items' = Items
      ]_vars


\* C26 (Spec): a restart, in every mode, sets the current index to 0, the
\* running count to 0 (the learned set to empty), clears the selected
\* answer or the guess, unlocks the question, hides the hint, leaves the
\* session not complete with a sequence that lists every word of the
\* fetched word set once, and neither fetches nor writes.
C26_RestartResets ==
    [][(mode \in Modes /\ isComplete /\ ~isComplete') =>
          /\ currentIndex' = 0
          /\ correctCount' = 0
          /\ learnedCards' = {}
          /\ selectedAnswer' = NoAnswer /\ ~isAnswered'
          /\ userInput' = <<>> /\ ~isChecked' /\ ~isCorrect' /\ ~showHint'
          /\ ~isFlipped'
          /\ HasData
          /\ LET after == IF mode = "quiz"
                          THEN [i \in DOMAIN questions' |-> questions'[i].word]
                          ELSE IF mode = "flashcard" THEN cards' ELSE words'
             IN  /\ Len(after) = Cardinality(Data)
                 /\ {after[i] : i \in DOMAIN after} = Data
          /\ UNCHANGED <<queryVars, storeVars, serverVars>>
      ]_vars

\* a spelling session was completed with one correct answer, its result
\* was posted, and the session was restarted
C26_Witness ==
    /\ mode = "spelling" /\ ~isComplete
    /\ \E i \in DOMAIN network : network[i].correctAnswers = 1
    /\ currentIndex = 0 /\ correctCount = 0
    /\ Len(words) = 2 /\ ~isChecked


\* C27 (Spec): in flashcard mode a step that changes the current index
\* during a session moves it by one, to an index of the deck, whether or
\* not the card it leaves is learned; it leaves the learned set and the
\* deck unchanged, does not complete the session and submits nothing; the
\* session is completed only by the separate complete action on the last
\* card, which keeps the index.
C27_FlashcardNavigation ==
    [][mode = "flashcard" =>
        /\ (~isComplete /\ currentIndex' # currentIndex) =>
              /\ currentIndex' \in {currentIndex - 1, currentIndex + 1}
              /\ currentIndex' \in 0 .. Len(cards) - 1
              /\ learnedCards' = learnedCards
              /\ cards' = cards
              /\ ~isComplete'
              /\ network' = network
              /\ UNCHANGED storeVars
        /\ (~isComplete /\ isComplete') =>
              /\ currentIndex' = currentIndex
              /\ currentIndex = Len(cards) - 1
      ]_vars

\* the first card was marked learned and left by next: the last card is
\* shown and nothing is submitted
C27_Witness ==
    /\ mode = "flashcard" /\ ~isComplete
    /\ Len(cards) = 2 /\ currentIndex = 1
    /\ cards[1] \in learnedCards
    /\ network = <<>> /\ quizResults = {}


\* C28 (SpecRuns): a result is posted only by the step that completes the
\* session, and that step posts exactly one; while the session is complete
\* no step posts, answers or advances, so that each run from start or
\* restart to Complete submits exactly one result.
C28_OneResultPerRun ==
    [][(mode \in Modes) =>
        /\ network' # network =>
              /\ ~isComplete /\ isComplete'
              /\ network' = Append(network, ResultBody(Count, Len(Items)))
        /\ (~isComplete /\ isComplete') => Len(network') = Len(network) + 1
        /\ (isComplete /\ isComplete') =>
              /\ network' = network
              /\ currentIndex' = currentIndex
              /\ correctCount' = correctCount
              /\ learnedCards' = learnedCards
              /\ selectedAnswer' = selectedAnswer /\ isAnswered' = isAnswered
              /\ isChecked' = isChecked /\ isCorrect' = isCorrect
      ]_vars

\* two runs were completed and each has posted one result
C28_Witness ==
    /\ mode \in Modes /\ isComplete
    /\ Len(network) = 2


\* C29 (SpecStore): for any interleaving of saveQuizResult calls, no step
\* decreases totalQuizzes or correctAnswers of a progress row, and whenever
\* no call is in progress every (user, collection) pair with stored
\* results has one progress row, whose totalQuizzes is the number of the
\* quiz results stored for the pair and whose correctAnswers is the sum of
\* their correctAnswers.
C29_CumulativeProgress ==
    [][/\ \A p \in progress : \A q \in progress' :
            q.id = p.id =>
               /\ q.totalQuizzes >= p.totalQuizzes
               /\ q.correctAnswers >= p.correctAnswers
       /\ (\A r \in Reqs : requests'[r].pc = "idle") =>
            \A u \in Users, c \in {k.id : k \in collections'} :
               LET results == {q \in quizResults' :
                                 q.userId = u /\ q.collectionId = c}
                   rows    == {p \in progress' :
                                 p.userId = u /\ p.collectionId = c}
                   RECURSIVE Correct(_)
                   Correct(S) ==
                       IF S = {} THEN 0
                       ELSE LET q == CHOOSE x \in S : TRUE
                            IN  q.correctAnswers + Correct(S \ {q})
               IN  results # {} =>
                      /\ Cardinality(rows) = 1
                      /\ \A p \in rows :
                            /\ p.totalQuizzes = Cardinality(results)
                            /\ p.correctAnswers = Correct(results)
      ]_vars

\* C30 (SpecLive): in every mode, with and without a collection id, a
\* session that has not received its words and whose route returns at
\* least 1 word (at least 2 for the quiz) eventually shows an item of the
\* session (InProgress); in particular spelling mode without a collection
\* id does.
C30_ReachesInProgress ==
    (vocabularyData = {} /\ Cardinality(FetchedWords) >= MinWords)
        ~> (View = "InProgress")

====
